---- MODULE Spec2Model ----
(***************************************************************************)
(* A model of the COMEHERE transformer (comehere.mjs, assigned-names.mjs,  *)
(* name-maker.mjs) and of the module it emits.                             *)
(*                                                                         *)
(* Spec      : a module made of goal chains is extracted, driven and given *)
(*             its preamble, then loaded and run by the host.              *)
(* PullSpec  : the return-trailing capture pass and the extractor on the   *)
(*             statement list of one block.                                *)
(***************************************************************************)
EXTENDS Integers, Sequences, FiniteSets, TLC

\* ------------------------------------------------------------------ bounds
MaxDepth == 2      \* constructs enclosing the goals of one module, in total
MaxGoals == 2      \* COMEHERE blocks of one module
MaxIter == 1       \* iterations the original test of a loop admits
MaxItems == 1      \* elements of an iterated collection
MaxRec == 1        \* recursive self-calls in flight
MaxStmts == 6      \* statements of the block given to the capture pass

\* ------------------------------------------------------- the input program
\* A goal chain lists, outermost first, the constructs that enclose one
\* COMEHERE block; the kind says which child of the construct holds the goal.
StmtKinds == {"IfThen", "IfElse", "While", "For", "DoWhile", "ForOf", "ForIn",
              "SwitchCase", "TryBlock", "TryCatch", "TryFinally"}
ExprKinds == {"CondThen", "CondElse", "Or", "And"}
FnKinds == {"FnDecl", "FnExpr"}
Kinds == StmtKinds \cup ExprKinds \cup FnKinds

\* A goal is a statement: under an expression it sits in a function expression.
\* A function declaration is driven only at module top level.
WellFormed(ch) ==
  \A i \in 1..Len(ch) :
    /\ ch[i] \in ExprKinds => (i < Len(ch) /\ ch[i + 1] = "FnExpr")
    /\ ch[i] = "FnDecl" => i = 1

ChainsOfLen(n) == {ch \in [1..n -> Kinds] : WellFormed(ch)}

\* The modules of g goals whose chains have d constructs in total at most.
RECURSIVE Modules(_, _)
Modules(g, d) ==
  IF g = 0 THEN {<< >>}
  ELSE UNION {{<<ch>> \o m : ch \in ChainsOfLen(n), m \in Modules(g - 1, d - n)}
              : n \in 0..d}

Programs == UNION {Modules(g, MaxDepth) : g \in 0..MaxGoals}

\* ------------------------------------------------------------- name-maker
NoName == -1

\* NameMaker.unusedNameAndSuffixNum: the first suffix, from the prefix's
\* counter on, whose name is unused; the counter moves past it.
\* The candidate `${identifierPrefix}_${suffixNum}`.
candidate(identifierPrefix, suffixNum) ==
  identifierPrefix \o "_" \o ToString(suffixNum)

RECURSIVE firstUnused(_, _, _)
firstUnused(namesUsed, prefix, n) ==
  IF candidate(prefix, n) \notin namesUsed THEN n
  ELSE firstUnused(namesUsed, prefix, n + 1)

\* A NameMaker that returns a name and leaves the counter at its suffix.
unusedNameAndSuffixNumAgain(nm, prefix) ==
  LET suffixNum == firstUnused(nm.namesUsed, prefix, nm.counters[prefix])
  IN [name |-> candidate(prefix, suffixNum),
      suffixNum |-> suffixNum,
      nm |-> [nm EXCEPT !.counters[prefix] = suffixNum]]

unusedNameAndSuffixNum(nm, prefix) ==
  LET suffixNum == firstUnused(nm.namesUsed, prefix, nm.counters[prefix])
  IN [name |-> candidate(prefix, suffixNum),
      suffixNum |-> suffixNum,
      nm |-> [nm EXCEPT !.counters[prefix] = suffixNum + 1]]

Prefixes == {"seeking", "activeFns", "isActiveCall", "maybeNotEmptyIterator",
             "maybeNotEmptyKeyIterator", "or", "and", "functionReturn"}

NewNameMaker == [namesUsed |-> {}, counters |-> [p \in Prefixes |-> 0]]

\* ---------------------------------------------------------------- state
VARIABLES
  module,         \* the input: a sequence of goal chains, in source order
  empty,          \* the input program has no statement at all
  phase,          \* the pass of transform, then "load", "run", "done"
  extracted,      \* the ComeHereBlocks found so far
  ast,            \* ast[c][i]: construct i of chain c as emitted
  goalGuard,      \* goalGuard[c]: the guard that replaced goal c
  driving,        \* the block being driven and the construct adjust is at
  nameMaker,      \* used names and per-prefix counters
  assignedNames,  \* the support-name slots that have been required
  declarations,   \* the preamble, in emitted order
  host,           \* what the host's global object provides
  hookCalls,      \* calls of getWhichSeeking in this load
  seeking,        \* the emitted seeking variable
  activeFns,      \* the emitted active-frame mask, as its set of bits
  k,              \* the control stack of the running module
  pc,             \* what the running module does next
  cur,            \* the chain and construct at which control stands
  obs,            \* the last decision of a rewritten construct
  ran,            \* ran[c]: how often the body of goal c has run
  ranArg,         \* the argument seen by the last goal body
  calls,          \* synthesised call blocks entered
  leftWith,       \* the seeking values with which call blocks were left
  seek0,          \* the seeking variable as initialised by the preamble
  abnormal,       \* a statement before the goal did not complete normally
  crashed,        \* the module load ended by an uncaught exception
  input,          \* the statements of one block as parsed
  statements,     \* the statements of that block, as the passes leave them
  visiting,       \* the statement of the block the traversal is at
  blocks          \* the descriptions transform returns

mainVars == <<module, empty, phase, extracted, ast, goalGuard, driving, nameMaker,
          assignedNames, declarations, host, hookCalls, seeking, activeFns, k,
          pc, cur, obs, ran, ranArg, calls, leftWith, seek0, abnormal, crashed,
          input, statements, visiting, blocks>>

inputVars == <<module, empty>>
blockVars == <<input, statements, visiting, blocks>>
transformVars == <<extracted, ast, goalGuard, driving, nameMaker, assignedNames,
                   declarations>>
runVars == <<host, hookCalls, seeking, activeFns, k, pc, cur, obs, ran, ranArg,
             calls, leftWith, seek0, abnormal, crashed>>

\* ------------------------------------- the passes modelled one at a time
VARIABLES
  identifiers,    \* the identifiers of a program, each with its place
  maker,          \* the NameMaker made for that program
  made,           \* the names unusedName has returned, in order
  tree,           \* the syntax tree given to blockify
  once,           \* the tree after blockify
  twice,          \* the tree after blockify has been applied again
  applied,        \* how often blockify has been applied
  written,        \* the items of the goal's with-list as written, in order
  ancestors,      \* the constructs around the goal that take initializers, innermost first
  initializers,   \* the initializers of the goal not consumed so far
  malformed,      \* the items the extractor reported and skipped
  adjusted,       \* what adjust has emitted for each construct walked so far
  unused,         \* the initializers named in the `did not match` error
  callNames,      \* the NameMaker of the program
  stage,          \* how far the goal has been driven
  thrown,         \* what the walk of the goal has thrown
  trySource,      \* the try statement and the initializers of the goal in its handler, as extracted
  tryBlock,       \* the statements of the try block
  tryInitializers, \* the initializers of the goal not consumed so far
  trySeeking,     \* the seeking variable while the try statement runs
  tryTrace,       \* what has run of the try statement, in order
  binding,        \* the value the handler's parameter is bound to
  tryPc,          \* where the transform or the run of the try statement is
  tryAt,          \* the statement of the try block that runs next
  switchSource,   \* the switch statement as written: its cases, the case of each goal, the value of its discriminant
  switchCases,    \* the cases of the switch statement
  discriminant,   \* the discriminant of the switch statement
  switchDeclarations, \* the declarators put before the switch statement, in order
  switchNames,    \* the NameMaker of the program
  switchDriven,   \* how many goals of the switch statement have been driven
  switchSeeking,  \* the seeking variable when the switch statement runs
  switchRun,      \* what the run of the switch statement did
  switchPc,       \* where the transform or the run of the switch statement is
  uses,           \* the occurrences of one `$$` name in the program, in the order of the traversal
  bodies,         \* the statements at the top of the module and of each function body
  edited,         \* what stands in the place of each occurrence after the pass
  capturePc,      \* where the pass is
  slotSource,     \* the statements that assign to the capture variable, as written
  slotCode,       \* the same statements after the pass
  captured,       \* the array the capture variable is bound to
  logged,         \* the arguments a call with the capture variable spread into it has got
  slotAt,         \* the statement that runs next
  slotPc,         \* where the pass or the run is
  targets,        \* the functions that hold a goal: the calls their with-lists and their parameter defaults make
  bits,           \* the mask of active frames, as the set of the bits that are set
  seekingVar0,    \* the seeking variable while the call blocks run
  frames,         \* the function calls in flight, outermost first
  site,           \* the call block that runs at module top level and the statements left of its try
  sitePc,         \* where the module is
  loopWritten,    \* the for-of or for-in loop as written, what its right side evaluates to and the value of the seek test
  loopEmitted,    \* the loop after adjust
  generator,      \* the generator object the wrapper returned
  yielded,        \* the values the loop has got from the generator, in order
  wrapperPc,      \* where the rewrite or the loop is
  logicalWritten, \* the expression `x || y` or `x && y` as written: what x and y evaluate to, the value of the seek test
  logicalEmitted, \* the expression after adjust
  evaluations,    \* the operands evaluated so far, in order
  helperFrame,    \* the call of the helper: its parameters, its local `yr`, what it returned
  logicalPc,      \* where the rewrite or the evaluation is
  memberWritten,  \* the method that holds the goal, as written, and where its class or object has the names of the name maker
  membersEmitted, \* the members that stand in its place after adjust
  stableMaker,    \* the NameMaker of the program
  delegated,      \* what a use of the original key has reached
  stablePc        \* where the rewrite or the use is

nameVars == <<identifiers, maker, made>>
blockifyVars == <<tree, once, twice, applied>>
callVars == <<written, ancestors, initializers, malformed, adjusted, unused, callNames, stage, thrown>>
tryVars == <<trySource, tryBlock, tryInitializers, trySeeking, tryTrace, binding, tryPc, tryAt>>
switchVars == <<switchSource, switchCases, discriminant, switchDeclarations, switchNames, switchDriven, switchSeeking, switchRun, switchPc>>
captureVars == <<uses, bodies, edited, capturePc>>
slotsVars == <<slotSource, slotCode, captured, logged, slotAt, slotPc>>
activationVars == <<targets, bits, seekingVar0, frames, site, sitePc>>
wrapperVars == <<loopWritten, loopEmitted, generator, yielded, wrapperPc>>
logicalVars == <<logicalWritten, logicalEmitted, evaluations, helperFrame, logicalPc>>
stableVars == <<memberWritten, membersEmitted, stableMaker, delegated, stablePc>>

passVars == <<nameVars, blockifyVars, callVars, tryVars, switchVars, captureVars, slotsVars, activationVars, wrapperVars, logicalVars, stableVars>>

vars == <<mainVars, passVars>>

\* The making of names has not started.
NameIdle ==
  /\ identifiers = << >>
  /\ maker = << >>
  /\ made = << >>

\* The block normaliser has not started.
BlockifyIdle ==
  /\ tree = << >>
  /\ once = << >>
  /\ twice = << >>
  /\ applied = 0

\* The synthesis of calls has not started.
CallIdle ==
  /\ written = << >>
  /\ ancestors = << >>
  /\ initializers = << >>
  /\ malformed = << >>
  /\ adjusted = << >>
  /\ unused = << >>
  /\ callNames = << >>
  /\ stage = "idle"
  /\ thrown = "null"

\* The try rule has not started.
TryIdle ==
  /\ trySource = << >>
  /\ tryBlock = << >>
  /\ tryInitializers = << >>
  /\ trySeeking = 0
  /\ tryTrace = << >>
  /\ binding = "null"
  /\ tryPc = "idle"
  /\ tryAt = 0

\* The switch rule has not started.
SwitchIdle ==
  /\ switchSource = << >>
  /\ switchCases = << >>
  /\ discriminant = << >>
  /\ switchDeclarations = << >>
  /\ switchNames = << >>
  /\ switchDriven = 0
  /\ switchSeeking = 0
  /\ switchRun = << >>
  /\ switchPc = "idle"

\* The declaring of capture variables has not started.
CaptureIdle ==
  /\ uses = << >>
  /\ bodies = << >>
  /\ edited = << >>
  /\ capturePc = "idle"

\* The run of capture assignments has not started.
SlotsIdle ==
  /\ slotSource = << >>
  /\ slotCode = << >>
  /\ captured = << >>
  /\ logged = << >>
  /\ slotAt = 0
  /\ slotPc = "idle"

\* The run of call blocks has not started.
ActivationIdle ==
  /\ targets = << >>
  /\ bits = {}
  /\ seekingVar0 = 0
  /\ frames = << >>
  /\ site = << >>
  /\ sitePc = "idle"

\* The run of an iterator wrapper has not started.
WrapperIdle ==
  /\ loopWritten = << >>
  /\ loopEmitted = << >>
  /\ generator = << >>
  /\ yielded = << >>
  /\ wrapperPc = "idle"

\* The run of a logical helper has not started.
LogicalIdle ==
  /\ logicalWritten = << >>
  /\ logicalEmitted = << >>
  /\ evaluations = << >>
  /\ helperFrame = << >>
  /\ logicalPc = "idle"

\* The making of a stable accessor has not started.
StableIdle ==
  /\ memberWritten = << >>
  /\ membersEmitted = << >>
  /\ stableMaker = << >>
  /\ delegated = "null"
  /\ stablePc = "idle"

PassIdle ==
  /\ NameIdle
  /\ BlockifyIdle
  /\ CallIdle
  /\ TryIdle
  /\ SwitchIdle
  /\ CaptureIdle
  /\ SlotsIdle
  /\ ActivationIdle
  /\ WrapperIdle
  /\ LogicalIdle
  /\ StableIdle

\* ------------------------------------------------------------ the transform
NoCheck == [id |-> 0, active |-> FALSE, inverted |-> FALSE]

\* The construct as parsed: nothing rewritten, no active-frame prologue.
parsed(kind) == [kind |-> kind, op |-> "none", check |-> NoCheck, bitIndex |-> NoName]

\* enclosingFn: the innermost function at or above position `from` of a chain.
RECURSIVE enclosingFn(_, _)
enclosingFn(astc, from) ==
  IF from = 0 THEN 0
  ELSE IF astc[from].kind \in FnKinds THEN from
  ELSE enclosingFn(astc, from - 1)

\* enclosingActiveFnContext: the function around the context and, when the
\* mask has a name and the function's body starts with the prologue, its flag.
enclosingActiveFnContext(astc, from, names) ==
  LET fnPath == enclosingFn(astc, from)
      found == fnPath > 0 /\ names.activeFns /\ astc[fnPath].bitIndex # NoName
  IN [fnPath |-> fnPath,
      isActiveCall |-> found,
      bitIndex |-> IF found THEN astc[fnPath].bitIndex ELSE NoName]

\* AssignedNames.#defineOnDemand: a slot gets its name the first time it is
\* required.
defineOnDemand(names, nm, slot) ==
  IF names[slot] THEN [names |-> names, nm |-> nm]
  ELSE [names |-> [names EXCEPT ![slot] = TRUE],
        nm |-> unusedNameAndSuffixNum(nm, slot).nm]

\* ensureActiveFnBodyPrefixPresent: the prologue is put at the start of the
\* enclosing function unless it is there; its bit is the suffix of a fresh
\* isActiveCall name.
ensureActiveFnBodyPrefixPresent(astc, from, names, nm) ==
  LET existing == enclosingActiveFnContext(astc, from, names)
      fnPath == existing.fnPath
      req == defineOnDemand(names, nm, "activeFns")
      fresh == unusedNameAndSuffixNum(req.nm, "isActiveCall")
  IN IF existing.isActiveCall \/ fnPath = 0
     THEN [astc |-> astc, names |-> names, nm |-> nm, bitIndex |-> existing.bitIndex]
     ELSE [astc |-> [astc EXCEPT ![fnPath].bitIndex = fresh.suffixNum],
           names |-> req.names, nm |-> fresh.nm, bitIndex |-> fresh.suffixNum]

\* A seekingCheck that forgets the inverted form, the one an else arm needs.
seekingCheckNeverInverted(astc, names, seekingValue, from, inverted) ==
  [id |-> seekingValue,
   active |-> enclosingActiveFnContext(astc, from, names).isActiveCall,
   inverted |-> FALSE]

\* seekingCheck: `isActiveCall && seeking === id`, or inverted
\* `!isActiveCall || seeking !== id`; the flag only inside a function that
\* has its prologue.
seekingCheck(astc, names, seekingValue, from, inverted) ==
  [id |-> seekingValue,
   active |-> enclosingActiveFnContext(astc, from, names).isActiveCall,
   inverted |-> inverted]

\* A seekingCheck that is satisfied by the id of any goal.
evalCheckAnyGoal(check, isActiveCall, seekingVar) ==
  LET cmp == IF check.inverted THEN seekingVar = 0 ELSE seekingVar # 0
  IN IF ~check.active THEN cmp
     ELSE IF check.inverted THEN (~isActiveCall) \/ cmp
     ELSE isActiveCall /\ cmp

\* The value of a seekingCheck in a frame whose flag is isActiveCall.
evalCheck(check, isActiveCall, seekingVar) ==
  LET cmp == IF check.inverted THEN seekingVar # check.id ELSE seekingVar = check.id
  IN IF ~check.active THEN cmp
     ELSE IF check.inverted THEN (~isActiveCall) \/ cmp
     ELSE isActiveCall /\ cmp

\* A registry in which for-in requires the wrapper of for-of.
requiredSlotValueWrapperOnly(kind) ==
  CASE kind \in {"ForOf", "ForIn"} -> "maybeNotEmptyIterator"
    [] kind = "Or" -> "or"
    [] kind = "And" -> "and"
    [] OTHER -> "none"

\* The slot a construct's rewrite requires of the support-name registry.
requiredSlot(kind) ==
  CASE kind = "ForOf" -> "maybeNotEmptyIterator"
    [] kind = "ForIn" -> "maybeNotEmptyKeyIterator"
    [] kind = "Or" -> "or"
    [] kind = "And" -> "and"
    [] OTHER -> "none"

\* An adjust without the rule for while and for loops.
rewriteOpWithoutLoops(kind) ==
  CASE kind \in {"IfThen", "CondThen"} -> "||"
    [] kind \in {"IfElse", "CondElse"} -> "&&"
    [] kind \in {"ForOf", "ForIn"} -> "wrap"
    [] kind = "SwitchCase" -> "?:"
    [] kind = "TryCatch" -> "throw"
    [] kind \in {"Or", "And"} -> "helper"
    [] kind \in FnKinds -> "call"
    [] OTHER -> "none"

\* The rewrite adjust makes of the construct's test, iterable, discriminant,
\* try block or definition site.
rewriteOp(kind) ==
  CASE kind \in {"IfThen", "CondThen", "While", "For"} -> "||"
    [] kind \in {"IfElse", "CondElse"} -> "&&"
    [] kind \in {"ForOf", "ForIn"} -> "wrap"
    [] kind = "SwitchCase" -> "?:"
    [] kind = "TryCatch" -> "throw"
    [] kind \in {"Or", "And"} -> "helper"
    [] kind \in FnKinds -> "call"
    [] OTHER -> "none"

\* driveControlToComeHereBlock.adjust: the rule of the construct at position i
\* of the chain, for the goal with this seeking value.
adjust(astc, i, seekingValue, names, nm) ==
  LET kind == astc[i].kind
      ens == IF kind \in FnKinds
             THEN ensureActiveFnBodyPrefixPresent(astc, i, names, nm)
             ELSE [astc |-> astc, names |-> names, nm |-> nm, bitIndex |-> NoName]
      req == IF requiredSlot(kind) = "none" THEN [names |-> ens.names, nm |-> ens.nm]
             ELSE defineOnDemand(ens.names, ens.nm, requiredSlot(kind))
      check == seekingCheck(ens.astc, ens.names, seekingValue, i - 1,
                            kind \in {"IfElse", "CondElse"})
  IN [astc |-> IF rewriteOp(kind) = "none" THEN ens.astc
               ELSE [ens.astc EXCEPT ![i].op = rewriteOp(kind), ![i].check = check],
      names |-> req.names,
      nm |-> req.nm]

NoSlots == [activeFns |-> FALSE, maybeNotEmptyIterator |-> FALSE,
            maybeNotEmptyKeyIterator |-> FALSE, or |-> FALSE, and |-> FALSE]

\* extractComeHereBlocks, one COMEHERE block: the next seeking value, the
\* prologue of the enclosing function, the guard in place of the block.
extractComeHereBlocks ==
  /\ phase = "extract"
  /\ Len(extracted) < Len(module)
  /\ LET c == Len(extracted) + 1
         seekingValue == Len(extracted) + 1
         ens == ensureActiveFnBodyPrefixPresent(ast[c], Len(ast[c]), assignedNames,
                                                nameMaker)
     IN /\ ast' = [ast EXCEPT ![c] = ens.astc]
        /\ assignedNames' = ens.names
        /\ nameMaker' = ens.nm
        /\ goalGuard' = [goalGuard EXCEPT
                           ![c] = seekingCheck(ens.astc, ens.names, seekingValue,
                                               Len(ast[c]), FALSE)]
        /\ extracted' = Append(extracted, [seekingValue |-> seekingValue, path |-> c])
  /\ UNCHANGED <<driving, declarations, phase>>
  /\ UNCHANGED passVars /\ UNCHANGED inputVars /\ UNCHANGED blockVars /\ UNCHANGED runVars

\* transform: after the extractor, the driver takes the blocks in order.
startDriving ==
  /\ phase = "extract"
  /\ Len(extracted) = Len(module)
  /\ phase' = "drive"
  /\ driving' = [block |-> 1, at |-> IF module = << >> THEN 0 ELSE Len(module[1])]
  /\ UNCHANGED <<extracted, ast, goalGuard, nameMaker, assignedNames, declarations>>
  /\ UNCHANGED passVars /\ UNCHANGED inputVars /\ UNCHANGED blockVars /\ UNCHANGED runVars

\* driveControlToComeHereBlock: adjust walks rootward from the block, one
\* enclosing construct at a time, then the next block is driven.
driveControlToComeHereBlock ==
  /\ phase = "drive"
  /\ driving.block <= Len(extracted)
  /\ LET c == extracted[driving.block].path
         i == driving.at
     IN IF i >= 1
        THEN LET r == adjust(ast[c], i, extracted[driving.block].seekingValue,
                             assignedNames, nameMaker)
             IN /\ ast' = [ast EXCEPT ![c] = r.astc]
                /\ assignedNames' = r.names
                /\ nameMaker' = r.nm
                /\ driving' = [driving EXCEPT !.at = i - 1]
        ELSE /\ driving' = [block |-> driving.block + 1,
                            at |-> IF driving.block < Len(extracted)
                                   THEN Len(module[extracted[driving.block + 1].path])
                                   ELSE 0]
             /\ UNCHANGED <<ast, assignedNames, nameMaker>>
  /\ UNCHANGED <<extracted, goalGuard, declarations, phase>>
  /\ UNCHANGED passVars /\ UNCHANGED inputVars /\ UNCHANGED blockVars /\ UNCHANGED runVars

\* ------------------------------------------------------------ the preamble
\* declareAssignedNames: the seeking variable, then each support name that
\* has been assigned, put before the first statement of the program (a
\* program without statements gets nothing).
declared(names) ==
  <<"seeking">>
  \o (IF names.activeFns THEN <<"activeFns">> ELSE << >>)
  \o (IF names.maybeNotEmptyIterator THEN <<"maybeNotEmptyIterator">> ELSE << >>)
  \o (IF names.maybeNotEmptyKeyIterator THEN <<"maybeNotEmptyKeyIterator">> ELSE << >>)
  \o (IF names.or THEN <<"or">> ELSE << >>)
  \o (IF names.and THEN <<"and">> ELSE << >>)

declareAssignedNames ==
  /\ phase = "drive"
  /\ driving.block > Len(extracted)
  /\ declarations' = IF empty THEN << >> ELSE declared(assignedNames)
  /\ phase' = "load"
  /\ UNCHANGED <<extracted, ast, goalGuard, driving, nameMaker, assignedNames>>
  /\ UNCHANGED passVars /\ UNCHANGED inputVars /\ UNCHANGED blockVars /\ UNCHANGED runVars

\* ------------------------------------------------------------ the host
\* The global object has no debugHooks, or its getWhichSeeking answers with
\* undefined or with a number.
Undefined == -1
Hosts == {[debugHooks |-> FALSE, answer |-> Undefined]}
         \cup {[debugHooks |-> TRUE, answer |-> a] : a \in {Undefined} \cup (0..(MaxGoals + 1))}

\* The initialiser of the seeking variable as it is printed:
\* `globalThis.debugHooks.getWhichSeeking(import.meta) || 0`. The member and
\* the call are plain nodes given an `optional` field, which prints no `?.`.
seekingInitializer(h) ==
  IF ~h.debugHooks THEN [threw |-> TRUE, value |-> Undefined, hookCalls |-> 0]
  ELSE [threw |-> FALSE,
        value |-> IF h.answer \in {Undefined, 0} THEN 0 ELSE h.answer,
        hookCalls |-> 1]

\* ------------------------------------------------------- the emitted module
NoFrame == [type |-> "none", c |-> 0, lvl |-> 0, act |-> FALSE, n |-> 0,
            via |-> "none", arg |-> "none", flag |-> FALSE]
NoObs == [kind |-> "none", seek |-> 0, flagged |-> FALSE, active |-> FALSE,
          emitted |-> FALSE, original |-> FALSE]

Top == k[Len(k)]
Pop == SubSeq(k, 1, Len(k) - 1)
Push(f) == Append(k, f)

\* The isActiveCall constant of the innermost running function, if any.
RECURSIVE innermostFn(_, _)
innermostFn(stack, n) ==
  IF n = 0 THEN NoFrame
  ELSE IF stack[n].type = "fn" THEN stack[n]
  ELSE innermostFn(stack, n - 1)

isActiveCall == innermostFn(k, Len(k)).act

level == ast[cur.c][cur.i]

\* The test a rewrite leaves in place: `test || check`, `test && check`.
emittedTest(lv, test, active, seekingVar) ==
  CASE lv.op = "||" -> test \/ evalCheck(lv.check, active, seekingVar)
    [] lv.op = "&&" -> test /\ evalCheck(lv.check, active, seekingVar)
    [] OTHER -> test

observe(lv, emitted, original) ==
  [kind |-> lv.kind, seek |-> seeking, flagged |-> lv.check.active,
   active |-> isActiveCall, emitted |-> emitted, original |-> original]

\* The load: the preamble initialises the seeking variable and the mask, then
\* the first statement runs.
Load ==
  /\ phase = "load"
  /\ \E h \in Hosts :
       LET init == seekingInitializer(h)
       IN /\ host' = h
          /\ IF declarations = << >>
             THEN /\ UNCHANGED <<hookCalls, seeking, seek0, crashed>>
                  /\ pc' = "done" /\ phase' = "done"
             ELSE /\ hookCalls' = init.hookCalls
                  /\ seeking' = init.value
                  /\ seek0' = init.value
                  /\ crashed' = init.threw
                  /\ IF init.threw \/ module = << >>
                     THEN pc' = "done" /\ phase' = "done"
                     ELSE pc' = "enter" /\ phase' = "run"
  /\ cur' = [c |-> 1, i |-> 1]
  /\ UNCHANGED <<activeFns, k, obs, ran, ranArg, calls, leftWith, abnormal>>
  /\ UNCHANGED passVars /\ UNCHANGED inputVars /\ UNCHANGED blockVars /\ UNCHANGED transformVars

AtConstruct(kinds) ==
  /\ phase = "run" /\ pc = "enter"
  /\ cur.i <= Len(module[cur.c])
  /\ level.kind \in kinds

Descend(frame) ==
  /\ k' = Push(frame)
  /\ cur' = [cur EXCEPT !.i = cur.i + 1]
  /\ pc' = "enter"

Skip == k' = k /\ cur' = cur /\ pc' = "exit"

Frame(type) == [NoFrame EXCEPT !.type = type, !.c = cur.c, !.lvl = cur.i]

\* if / ?: : the rewritten test chooses the arm.
Branch ==
  /\ AtConstruct({"IfThen", "IfElse", "CondThen", "CondElse"})
  /\ \E test \in BOOLEAN :
       LET taken == emittedTest(level, test, isActiveCall, seeking)
           goalInThen == level.kind \in {"IfThen", "CondThen"}
       IN /\ obs' = observe(level, taken, test)
          /\ IF taken = goalInThen THEN Descend(Frame("arm")) ELSE Skip
  /\ UNCHANGED <<host, hookCalls, seeking, activeFns, ran, ranArg, calls, leftWith,
                 seek0, abnormal, crashed, phase>>
  /\ UNCHANGED passVars /\ UNCHANGED inputVars /\ UNCHANGED blockVars /\ UNCHANGED transformVars

\* while / for: the rewritten test admits the first iteration.
LoopEnter ==
  /\ AtConstruct({"While", "For"})
  /\ \E test \in BOOLEAN :
       LET admitted == emittedTest(level, test, isActiveCall, seeking)
       IN /\ MaxIter = 0 => ~test
          /\ obs' = observe(level, admitted, test)
          /\ IF admitted
             THEN Descend([Frame("loop") EXCEPT !.n = IF test THEN 1 ELSE 0])
             ELSE Skip
  /\ UNCHANGED <<host, hookCalls, seeking, activeFns, ran, ranArg, calls, leftWith,
                 seek0, abnormal, crashed, phase>>
  /\ UNCHANGED passVars /\ UNCHANGED inputVars /\ UNCHANGED blockVars /\ UNCHANGED transformVars

\* do-while: the body runs before the test, which is not rewritten.
DoWhileEnter ==
  /\ AtConstruct({"DoWhile"})
  /\ Descend(Frame("dowhile"))
  /\ UNCHANGED <<host, hookCalls, seeking, activeFns, obs, ran, ranArg, calls,
                 leftWith, seek0, abnormal, crashed, phase>>
  /\ UNCHANGED passVars /\ UNCHANGED inputVars /\ UNCHANGED blockVars /\ UNCHANGED transformVars

\* The support functions of the preamble.
Placeholder == 0

\* function* maybeNotEmptyIterator(items, seeking) and its key twin: every
\* element is yielded and clears the flag; a flag still set yields one
\* placeholder.
RECURSIVE yieldEach(_, _, _)
yieldEach(items, flag, out) ==
  IF items = << >> THEN (IF flag THEN Append(out, Placeholder) ELSE out)
  ELSE yieldEach(Tail(items), FALSE, Append(out, Head(items)))

maybeNotEmptyIterator(items, flag) == yieldEach(items, flag, << >>)

\* function or(x, y, seeking) / and(x, y, seeking): with the flag y() is
\* called first and `x op yr` returned, without it `x op y()`.  The result
\* names the operand whose value is returned.
shortCircuit(operator, xTruthy) ==
  IF operator = "Or" THEN (IF xTruthy THEN "x" ELSE "y")
  ELSE (IF xTruthy THEN "y" ELSE "x")

helper(operator, xTruthy, flag) ==
  [yCalled |-> flag \/ shortCircuit(operator, xTruthy) = "y",
   result |-> shortCircuit(operator, xTruthy)]

ItemLists == {[j \in 1..n |-> j] : n \in 0..MaxItems}

\* for-of / for-in: the loop runs over the wrapped iterable; the flag is the
\* check as evaluated when the loop starts.
IterEnter ==
  /\ AtConstruct({"ForOf", "ForIn"})
  /\ \E items \in ItemLists :
       LET flag == evalCheck(level.check, isActiveCall, seeking)
           visited == IF level.op = "wrap" THEN maybeNotEmptyIterator(items, flag)
                      ELSE items
       IN /\ obs' = observe(level, visited, items)
          /\ IF visited # << >>
             THEN Descend([Frame("iter") EXCEPT !.n = Len(visited)])
             ELSE Skip
  /\ UNCHANGED <<host, hookCalls, seeking, activeFns, ran, ranArg, calls, leftWith,
                 seek0, abnormal, crashed, phase>>
  /\ UNCHANGED passVars /\ UNCHANGED inputVars /\ UNCHANGED blockVars /\ UNCHANGED transformVars

\* switch: `check ? caseToken : caseExpr` selects the token case, which holds
\* the statements of the goal's case, or the case the snapshot selects.
SwitchEnter ==
  /\ AtConstruct({"SwitchCase"})
  /\ \E selects \in {"goal", "other", "none"} :
       LET token == level.op = "?:" /\ evalCheck(level.check, isActiveCall, seeking)
           selected == IF token THEN "goal" ELSE selects
       IN /\ obs' = observe(level, selected, selects)
          /\ IF selected = "goal" THEN Descend(Frame("arm")) ELSE Skip
  /\ UNCHANGED <<host, hookCalls, seeking, activeFns, ran, ranArg, calls, leftWith,
                 seek0, abnormal, crashed, phase>>
  /\ UNCHANGED passVars /\ UNCHANGED inputVars /\ UNCHANGED blockVars /\ UNCHANGED transformVars

\* try: a goal in the try block or the finalizer needs no rewrite; for a goal
\* in the handler the try block starts with `if (check) throw ...`.
TryEnter ==
  /\ AtConstruct({"TryBlock", "TryCatch", "TryFinally"})
  /\ \E throws \in BOOLEAN :
       LET fires == level.op = "throw" /\ evalCheck(level.check, isActiveCall, seeking)
       IN CASE level.kind = "TryBlock" ->
                 /\ ~throws
                 /\ Descend(Frame("try"))
                 /\ obs' = obs
            [] level.kind = "TryFinally" ->
                 /\ Descend([Frame("finally") EXCEPT !.flag = throws])
                 /\ obs' = obs
            [] level.kind = "TryCatch" ->
                 /\ obs' = observe(level, fires \/ throws, throws)
                 /\ IF fires \/ throws THEN Descend(Frame("arm")) ELSE Skip
  /\ UNCHANGED <<host, hookCalls, seeking, activeFns, ran, ranArg, calls, leftWith,
                 seek0, abnormal, crashed, phase>>
  /\ UNCHANGED passVars /\ UNCHANGED inputVars /\ UNCHANGED blockVars /\ UNCHANGED transformVars

\* || / &&: the call of the helper in place of the operator.
LogicalEnter ==
  /\ AtConstruct({"Or", "And"})
  /\ \E xTruthy \in BOOLEAN :
       LET flag == evalCheck(level.check, isActiveCall, seeking)
           call == IF level.op = "helper" THEN helper(level.kind, xTruthy, flag)
                   ELSE helper(level.kind, xTruthy, FALSE)
           original == [yCalled |-> shortCircuit(level.kind, xTruthy) = "y",
                        result |-> shortCircuit(level.kind, xTruthy)]
       IN /\ obs' = observe(level, call, original)
          /\ IF call.yCalled THEN Descend(Frame("arm")) ELSE Skip
  /\ UNCHANGED <<host, hookCalls, seeking, activeFns, ran, ranArg, calls, leftWith,
                 seek0, abnormal, crashed, phase>>
  /\ UNCHANGED passVars /\ UNCHANGED inputVars /\ UNCHANGED blockVars /\ UNCHANGED transformVars

\* A prologue that reads the bit and leaves it set.
prologueKeepsBit(mask, bitIndex) ==
  IF bitIndex = NoName THEN [isActiveCall |-> FALSE, mask |-> mask]
  ELSE [isActiveCall |-> bitIndex \in mask, mask |-> mask]

\* The prologue of a function with an active-frame bit: the local flag is the
\* bit, and the bit is cleared; a function without prologue touches nothing.
prologue(mask, bitIndex) ==
  IF bitIndex = NoName THEN [isActiveCall |-> FALSE, mask |-> mask]
  ELSE [isActiveCall |-> bitIndex \in mask, mask |-> mask \ {bitIndex}]

\* A call of the function at `lvl` of chain c: the prologue runs first.
Invoke(stack, c, lvl, via, arg) ==
  LET p == prologue(activeFns, ast[c][lvl].bitIndex)
  IN /\ k' = Append(stack, [NoFrame EXCEPT !.type = "fn", !.c = c, !.lvl = lvl,
                                          !.act = p.isActiveCall, !.via = via,
                                          !.arg = arg])
     /\ activeFns' = p.mask
     /\ pc' = "pre"

InFlight(c, lvl) == Cardinality({j \in 1..Len(k) : k[j].type = "fn" /\ k[j].c = c
                                                   /\ k[j].lvl = lvl})

\* The place of a function: its definition, then the call block
\*   if (check) { try { const ...; activeFns |= bit; invoke } finally { seeking = 0 } }
\* Here the check is evaluated and the try entered.
callBlock ==
  /\ AtConstruct(FnKinds)
  /\ LET entered == level.op = "call" /\ evalCheck(level.check, isActiveCall, seeking)
     IN /\ obs' = observe(level, entered, FALSE)
        /\ k' = Push([Frame("site") EXCEPT !.flag = entered])
        /\ calls' = IF entered THEN calls + 1 ELSE calls
        /\ pc' = IF entered THEN "const" ELSE "after"
  /\ UNCHANGED <<host, hookCalls, seeking, activeFns, cur, ran, ranArg, leftWith,
                 seek0, abnormal, crashed, phase>>
  /\ UNCHANGED passVars /\ UNCHANGED inputVars /\ UNCHANGED blockVars /\ UNCHANGED transformVars

\* The const declarators of the call block (callee, receiver, arguments) are
\* evaluated inside the try; an initializer may throw.
callBlockConst ==
  /\ phase = "run" /\ pc = "const"
  /\ \E throws \in BOOLEAN :
       /\ pc' = IF throws THEN "throw" ELSE "setbit"
       /\ abnormal' = (abnormal \/ throws)
  /\ UNCHANGED <<host, hookCalls, seeking, activeFns, k, cur, obs, ran, ranArg,
                 calls, leftWith, seek0, crashed, phase>>
  /\ UNCHANGED passVars /\ UNCHANGED inputVars /\ UNCHANGED blockVars /\ UNCHANGED transformVars

\* setActiveFnBitExpression: `activeFns |= 1n << bitIndex`.
setActiveFnBitExpression ==
  /\ phase = "run" /\ pc = "setbit"
  /\ activeFns' = activeFns \cup {ast[Top.c][Top.lvl].bitIndex}
  /\ pc' = "invoke"
  /\ UNCHANGED <<host, hookCalls, seeking, k, cur, obs, ran, ranArg, calls,
                 leftWith, seek0, abnormal, crashed, phase>>
  /\ UNCHANGED passVars /\ UNCHANGED inputVars /\ UNCHANGED blockVars /\ UNCHANGED transformVars

\* invocationExpression: the synthesised call, with the goal's initializers.
invocationExpression ==
  /\ phase = "run" /\ pc = "invoke"
  /\ Invoke(k, Top.c, Top.lvl, "callblock", "initializer")
  /\ UNCHANGED <<host, hookCalls, seeking, cur, obs, ran, ranArg, calls, leftWith,
                 seek0, abnormal, crashed, phase>>
  /\ UNCHANGED passVars /\ UNCHANGED inputVars /\ UNCHANGED blockVars /\ UNCHANGED transformVars

\* After the call block the program goes on as written: it may call the
\* function itself (an immediately invoked function, a later call).
OriginalCall ==
  /\ phase = "run" /\ pc = "after" /\ Top.type = "site"
  /\ \/ /\ Top.n = 0
        /\ Invoke([k EXCEPT ![Len(k)].n = 1], Top.c, Top.lvl, "original", "original")
     \/ /\ k' = Pop /\ pc' = "exit" /\ activeFns' = activeFns
  /\ UNCHANGED <<host, hookCalls, seeking, cur, obs, ran, ranArg, calls, leftWith,
                 seek0, abnormal, crashed, phase>>
  /\ UNCHANGED passVars /\ UNCHANGED inputVars /\ UNCHANGED blockVars /\ UNCHANGED transformVars

\* The statements of a function body before the construct on the goal's path:
\* the body may call the function recursively, return early or throw.
FnBody ==
  /\ phase = "run" /\ pc = "pre" /\ Top.type = "fn"
  /\ \/ /\ cur' = [c |-> Top.c, i |-> Top.lvl + 1]
        /\ pc' = "enter"
        /\ UNCHANGED <<k, activeFns, abnormal>>
     \/ /\ Top.n = 0 /\ InFlight(Top.c, Top.lvl) <= MaxRec
        /\ Invoke([k EXCEPT ![Len(k)].n = 1], Top.c, Top.lvl, "recursive", "recursive")
        /\ UNCHANGED <<cur, abnormal>>
     \/ /\ pc' = "return"
        /\ abnormal' = (abnormal \/ Top.via = "callblock")
        /\ UNCHANGED <<k, cur, activeFns>>
     \/ /\ pc' = "throw"
        /\ abnormal' = TRUE
        /\ UNCHANGED <<k, cur, activeFns>>
  /\ UNCHANGED <<host, hookCalls, seeking, obs, ran, ranArg, calls, leftWith,
                 seek0, crashed, phase>>
  /\ UNCHANGED passVars /\ UNCHANGED inputVars /\ UNCHANGED blockVars /\ UNCHANGED transformVars

\* A goal body without the reset.
resetStatementMissing(seekingVar) == seekingVar

\* The statement that extraction puts first in the goal's body: `seeking = 0`.
resetStatement(seekingVar) == 0

\* The goal: `if (check) { seeking = 0; body }`.  The body may complete, throw
\* or call the function around it.
Goal ==
  /\ phase = "run" /\ pc = "enter"
  /\ cur.i = Len(module[cur.c]) + 1
  /\ LET entered == evalCheck(goalGuard[cur.c], isActiveCall, seeking)
         fn == innermostFn(k, Len(k))
     IN IF entered
        THEN /\ seeking' = resetStatement(seeking)
             /\ ran' = [ran EXCEPT ![cur.c] = @ + 1]
             /\ ranArg' = fn.arg
             /\ \/ pc' = "exit" /\ UNCHANGED <<k, activeFns>>
                \/ pc' = "throw" /\ UNCHANGED <<k, activeFns>>
                \/ /\ fn.type = "fn" /\ InFlight(fn.c, fn.lvl) <= MaxRec
                   /\ Invoke(k, fn.c, fn.lvl, "goal body", "goal body")
        ELSE /\ pc' = "exit"
             /\ UNCHANGED <<seeking, ran, ranArg, k, activeFns>>
  /\ UNCHANGED <<host, hookCalls, cur, obs, calls, leftWith, seek0, abnormal,
                 crashed, phase>>
  /\ UNCHANGED passVars /\ UNCHANGED inputVars /\ UNCHANGED blockVars /\ UNCHANGED transformVars

\* A loop whose body has completed tests again (for-of asks the wrapper for
\* the next element).
LoopNext ==
  /\ phase = "run" /\ pc = "exit" /\ k # << >>
  /\ Top.type \in {"loop", "dowhile", "iter"}
  /\ LET lv == ast[Top.c][Top.lvl]
     IN IF Top.type = "iter"
        THEN /\ obs' = obs
             /\ IF Top.n > 1
                THEN /\ k' = [k EXCEPT ![Len(k)].n = @ - 1]
                     /\ cur' = [c |-> Top.c, i |-> Top.lvl + 1]
                     /\ pc' = "enter"
                ELSE k' = Pop /\ cur' = cur /\ pc' = "exit"
        ELSE \E test \in BOOLEAN :
               LET admitted == emittedTest(lv, test, isActiveCall, seeking)
               IN /\ test => Top.n < MaxIter
                  /\ obs' = observe(lv, admitted, test)
                  /\ IF admitted
                     THEN /\ k' = [k EXCEPT ![Len(k)].n = IF test THEN @ + 1 ELSE @]
                          /\ cur' = [c |-> Top.c, i |-> Top.lvl + 1]
                          /\ pc' = "enter"
                     ELSE k' = Pop /\ cur' = cur /\ pc' = "exit"
  /\ UNCHANGED <<host, hookCalls, seeking, activeFns, ran, ranArg, calls, leftWith,
                 seek0, abnormal, crashed, phase>>
  /\ UNCHANGED passVars /\ UNCHANGED inputVars /\ UNCHANGED blockVars /\ UNCHANGED transformVars

\* An arm, a try block, a handler or a finalizer has completed; a finalizer
\* entered by an exception rethrows it.
Leave ==
  /\ phase = "run" /\ pc = "exit" /\ k # << >>
  /\ Top.type \in {"arm", "try", "finally"}
  /\ k' = Pop
  /\ pc' = IF Top.type = "finally" /\ Top.flag THEN "throw" ELSE "exit"
  /\ abnormal' = (abnormal \/ (Top.type = "finally" /\ Top.flag))
  /\ UNCHANGED <<host, hookCalls, seeking, activeFns, cur, obs, ran, ranArg, calls,
                 leftWith, seek0, crashed, phase>>
  /\ UNCHANGED passVars /\ UNCHANGED inputVars /\ UNCHANGED blockVars /\ UNCHANGED transformVars

\* A call block whose finally does nothing.
finallyStatementMissing(seekingVar) == seekingVar

\* The finally of the call block: `seeking = 0`.
finallyStatement(seekingVar) == 0

\* A function returns to its caller: to the call block, whose finally runs,
\* to the original call, to the recursive call or to the goal body.
Return ==
  /\ phase = "run" /\ k # << >> /\ Top.type = "fn"
  /\ pc \in {"exit", "return"}
  /\ CASE Top.via = "callblock" ->
            /\ seeking' = finallyStatement(seeking)
            /\ leftWith' = leftWith \cup {finallyStatement(seeking)}
            /\ k' = [Pop EXCEPT ![Len(k) - 1].flag = FALSE]
            /\ pc' = "after"
       [] Top.via = "original" ->
            /\ k' = SubSeq(k, 1, Len(k) - 2)
            /\ pc' = "exit"
            /\ UNCHANGED <<seeking, leftWith>>
       [] Top.via = "recursive" ->
            /\ k' = Pop
            /\ pc' = "pre"
            /\ UNCHANGED <<seeking, leftWith>>
       [] Top.via = "goal body" ->
            /\ k' = Pop
            /\ pc' = "exit"
            /\ UNCHANGED <<seeking, leftWith>>
  /\ UNCHANGED <<host, hookCalls, activeFns, cur, obs, ran, ranArg, calls, seek0,
                 abnormal, crashed, phase>>
  /\ UNCHANGED passVars /\ UNCHANGED inputVars /\ UNCHANGED blockVars /\ UNCHANGED transformVars

\* An exception unwinds one frame: a try block with a handler may catch it, the
\* finally of a call block runs on the way.
Unwind ==
  /\ phase = "run" /\ pc = "throw" /\ k # << >>
  /\ k' = Pop
  /\ \/ pc' = "throw"
     \/ Top.type = "try" /\ pc' = "exit"
  /\ IF Top.type = "site" /\ Top.flag
     THEN /\ seeking' = finallyStatement(seeking)
          /\ leftWith' = leftWith \cup {finallyStatement(seeking)}
     ELSE UNCHANGED <<seeking, leftWith>>
  /\ UNCHANGED <<host, hookCalls, activeFns, cur, obs, ran, ranArg, calls, seek0,
                 abnormal, crashed, phase>>
  /\ UNCHANGED passVars /\ UNCHANGED inputVars /\ UNCHANGED blockVars /\ UNCHANGED transformVars

\* A top-level statement has completed: the next one runs, or the load ends.
NextStatement ==
  /\ phase = "run" /\ pc = "exit" /\ k = << >>
  /\ IF cur.c < Len(module)
     THEN cur' = [c |-> cur.c + 1, i |-> 1] /\ pc' = "enter" /\ phase' = phase
     ELSE cur' = cur /\ pc' = "done" /\ phase' = "done"
  /\ UNCHANGED <<host, hookCalls, seeking, activeFns, k, obs, ran, ranArg, calls,
                 leftWith, seek0, abnormal, crashed>>
  /\ UNCHANGED passVars /\ UNCHANGED inputVars /\ UNCHANGED blockVars /\ UNCHANGED transformVars

\* An exception nobody caught ends the load.
Uncaught ==
  /\ phase = "run" /\ pc = "throw" /\ k = << >>
  /\ crashed' = TRUE
  /\ pc' = "done" /\ phase' = "done"
  /\ UNCHANGED <<host, hookCalls, seeking, activeFns, k, cur, obs, ran, ranArg,
                 calls, leftWith, seek0, abnormal>>
  /\ UNCHANGED passVars /\ UNCHANGED inputVars /\ UNCHANGED blockVars /\ UNCHANGED transformVars

\* ------------------------------------------------- the statements of a block
\* A statement of the block: its identity (the position it was parsed at), its
\* type, the returned expression or the initialiser, the suffix of the
\* functionReturn name it mentions, the leading string literal of a with-list,
\* what the body of a COMEHERE block reads, and the seeking value of a guard.
Null == "null"
Descriptions == {"", "goal"}

statement(t, arg, literal, value, reads) ==
  [id |-> 0, t |-> t, arg |-> arg, r |-> NoName, literal |-> literal,
   value |-> value, reads |-> reads, seekingValue |-> 0]

Templates ==
  {statement("other", "none", FALSE, "", "none"),
   statement("return", "E", FALSE, "", "none"),
   statement("return", "none", FALSE, "", "none"),
   statement("comehere", "none", FALSE, "", "Function.return")}
  \cup {statement("comehere", "none", TRUE, d, "Function.return") : d \in Descriptions}

BlocksOfLen(n) == [1..n -> Templates]

\* The block as parsed: every statement is a node of its own.
parsedBlock(b) == [j \in 1..Len(b) |-> [b[j] EXCEPT !.id = j]]

isComehereBlock(node) == node.t = "comehere"

\* Array.prototype.indexOf, slice and splice on a statement list; positions
\* count from 0 as in the source.
indexOf(stmts, id) ==
  IF \E j \in 1..Len(stmts) : stmts[j].id = id
  THEN (CHOOSE j \in 1..Len(stmts) : stmts[j].id = id) - 1
  ELSE -1

slice(stmts, start, end) == SubSeq(stmts, start + 1, end)

splice(stmts, start, deleteCount, items) ==
  LET rest == Len(stmts) - start
      deleted == IF deleteCount < rest THEN deleteCount ELSE rest
  IN SubSeq(stmts, 1, start) \o items \o SubSeq(stmts, start + deleted + 1, Len(stmts))

\* The scan forward from a return over the COMEHERE blocks that follow it.
RECURSIVE scanComeHereBlocks(_, _)
scanComeHereBlocks(stmts, candidateIndex) ==
  IF candidateIndex < Len(stmts) /\ isComehereBlock(stmts[candidateIndex + 1])
  THEN scanComeHereBlocks(stmts, candidateIndex + 1)
  ELSE candidateIndex

\* `Function.return` in the body of a lifted block becomes the fresh name.
rewriteFunctionReturn(node, suffixNum) ==
  IF node.reads = "Function.return"
  THEN [node EXCEPT !.reads = "functionReturn", !.r = suffixNum]
  ELSE node

\* pullComeHereBlocksAfterReturnIntoFinally, the exit of one return statement.
pullReturn(stmts, returnId, nm) ==
  LET returnIndex == indexOf(stmts, returnId)
      first == returnIndex + 1
      afterLast == scanComeHereBlocks(stmts, returnIndex + 1)
      nComeHereBlocks == afterLast - first
      fresh == unusedNameAndSuffixNum(nm, "functionReturn")
      comeHereBlocks == [j \in 1..nComeHereBlocks |->
                           rewriteFunctionReturn(slice(stmts, first, afterLast)[j],
                                                 fresh.suffixNum)]
      returnNode == stmts[returnIndex + 1]
      returnedExpression == returnNode.arg
      returned == IF returnedExpression # "none"
                  THEN [returnNode EXCEPT !.arg = "functionReturn",
                                          !.r = fresh.suffixNum]
                  ELSE returnNode
      declaration == [statement("let", returnedExpression, FALSE, "", "none")
                        EXCEPT !.r = fresh.suffixNum]
  IN IF nComeHereBlocks = 0 THEN [statements |-> stmts, nm |-> nm]
     ELSE [statements |-> splice(stmts, returnIndex, afterLast,
                                 <<declaration>> \o comeHereBlocks \o <<returned>>),
           nm |-> fresh.nm]

\* The traversal is at a return statement that is still in the block.
ReturnStatement ==
  /\ phase = "pullBlock"
  /\ visiting <= Len(input)
  /\ input[visiting].t = "return"
  /\ indexOf(statements, visiting) >= 0
  /\ LET r == pullReturn(statements, visiting, nameMaker)
     IN /\ statements' = r.statements
        /\ nameMaker' = r.nm
  /\ visiting' = visiting + 1
  /\ UNCHANGED <<input, blocks, phase, extracted, module, empty>>
  /\ UNCHANGED <<ast, goalGuard, driving, assignedNames, declarations>>
  /\ UNCHANGED runVars /\ UNCHANGED passVars

\* The traversal passes a statement no visitor is for, or one that has gone
\* from the block.
traverse ==
  /\ \/ /\ phase = "pullBlock"
        /\ visiting <= Len(input)
        /\ \/ input[visiting].t # "return"
           \/ indexOf(statements, visiting) < 0
     \/ /\ phase = "extractBlock"
        /\ visiting <= Len(statements)
        /\ ~isComehereBlock(statements[visiting])
  /\ visiting' = visiting + 1
  /\ UNCHANGED <<input, statements, blocks, phase, extracted, module, empty>>
  /\ UNCHANGED <<ast, goalGuard, driving, nameMaker, assignedNames, declarations>>
  /\ UNCHANGED runVars /\ UNCHANGED passVars

\* transform: the capture pass is over, the extractor takes the block.
pullComeHereBlocksAfterReturnIntoFinally ==
  /\ phase = "pullBlock"
  /\ visiting > Len(input)
  /\ phase' = "extractBlock"
  /\ visiting' = 1
  /\ UNCHANGED <<input, statements, blocks, extracted, module, empty>>
  /\ UNCHANGED <<ast, goalGuard, driving, nameMaker, assignedNames, declarations>>
  /\ UNCHANGED runVars /\ UNCHANGED passVars

\* A description taken as written, the empty string included.
descriptionAsWritten(node) ==
  IF node.literal THEN node.value ELSE Null

\* `description = it[0].value || null` for a leading string literal.
description(node) ==
  IF node.literal /\ node.value # "" THEN node.value ELSE Null

\* extractComeHereBlocks, the visit of one COMEHERE block of the statement
\* list: the guard replaces the block, the block is recorded.
WithStatement ==
  /\ phase = "extractBlock"
  /\ visiting <= Len(statements)
  /\ isComehereBlock(statements[visiting])
  /\ LET seekingValue == Len(extracted) + 1
         node == statements[visiting]
     IN /\ statements' = [statements EXCEPT ![visiting].t = "if",
                                            ![visiting].seekingValue = seekingValue]
        /\ extracted' = Append(extracted, [seekingValue |-> seekingValue,
                                           path |-> node.id,
                                           description |-> description(node)])
  /\ visiting' = visiting + 1
  /\ UNCHANGED <<input, blocks, phase, module, empty>>
  /\ UNCHANGED <<ast, goalGuard, driving, nameMaker, assignedNames, declarations>>
  /\ UNCHANGED runVars /\ UNCHANGED passVars

\* transform: `blocks: comeHereBlocks.map(b => b.description)`.
transform ==
  /\ phase = "extractBlock"
  /\ visiting > Len(statements)
  /\ blocks' = [i \in 1..Len(extracted) |-> extracted[i].description]
  /\ phase' = "returned"
  /\ UNCHANGED <<input, statements, visiting, extracted, module, empty>>
  /\ UNCHANGED <<ast, goalGuard, driving, nameMaker, assignedNames, declarations>>
  /\ UNCHANGED runVars /\ UNCHANGED passVars


\* ---------------------------------------------------------- specification
Init ==
  /\ module \in Programs
  /\ empty \in BOOLEAN
  /\ empty => module = << >>
  /\ phase = "extract"
  /\ extracted = << >>
  /\ ast = [c \in 1..Len(module) |-> [i \in 1..Len(module[c]) |-> parsed(module[c][i])]]
  /\ goalGuard = [c \in 1..Len(module) |-> NoCheck]
  /\ driving = [block |-> 0, at |-> 0]
  /\ nameMaker = unusedNameAndSuffixNum(NewNameMaker, "seeking").nm
  /\ assignedNames = NoSlots
  /\ declarations = << >>
  /\ host = [debugHooks |-> FALSE, answer |-> Undefined]
  /\ hookCalls = 0
  /\ seeking = Undefined
  /\ activeFns = {}
  /\ k = << >>
  /\ pc = "transform"
  /\ cur = [c |-> 0, i |-> 0]
  /\ obs = NoObs
  /\ ran = [c \in 1..Len(module) |-> 0]
  /\ ranArg = "none"
  /\ calls = 0
  /\ leftWith = {}
  /\ seek0 = Undefined
  /\ abnormal = FALSE
  /\ crashed = FALSE
  /\ input = << >>
  /\ statements = << >>
  /\ visiting = 0
  /\ blocks = << >>
  /\ PassIdle

Next ==
  \/ extractComeHereBlocks
  \/ startDriving
  \/ driveControlToComeHereBlock
  \/ declareAssignedNames
  \/ Load
  \/ Branch
  \/ LoopEnter
  \/ DoWhileEnter
  \/ IterEnter
  \/ SwitchEnter
  \/ TryEnter
  \/ LogicalEnter
  \/ callBlock
  \/ callBlockConst
  \/ setActiveFnBitExpression
  \/ invocationExpression
  \/ OriginalCall
  \/ FnBody
  \/ Goal
  \/ LoopNext
  \/ Leave
  \/ Return
  \/ Unwind
  \/ NextStatement
  \/ Uncaught

Spec == Init /\ [][Next]_vars

\* The emitted module is single-threaded code that keeps running until the
\* load has ended.
FairSpec == Spec /\ WF_vars(Next)

PullInit ==
  /\ \E n \in 0..MaxStmts : input \in BlocksOfLen(n)
  /\ statements = parsedBlock(input)
  /\ visiting = 1
  /\ blocks = << >>
  /\ phase = "pullBlock"
  /\ extracted = << >>
  /\ nameMaker = unusedNameAndSuffixNum(NewNameMaker, "seeking").nm
  /\ module = << >>
  /\ empty = FALSE
  /\ ast = << >>
  /\ goalGuard = << >>
  /\ driving = [block |-> 0, at |-> 0]
  /\ assignedNames = NoSlots
  /\ declarations = << >>
  /\ host = [debugHooks |-> FALSE, answer |-> Undefined]
  /\ hookCalls = 0
  /\ seeking = Undefined
  /\ activeFns = {}
  /\ k = << >>
  /\ pc = "transform"
  /\ cur = [c |-> 0, i |-> 0]
  /\ obs = NoObs
  /\ ran = << >>
  /\ ranArg = "none"
  /\ calls = 0
  /\ leftWith = {}
  /\ seek0 = Undefined
  /\ abnormal = FALSE
  /\ crashed = FALSE
  /\ PassIdle

PullNext ==
  \/ ReturnStatement
  \/ traverse
  \/ pullComeHereBlocksAfterReturnIntoFinally
  \/ WithStatement
  \/ transform

PullSpec == PullInit /\ [][PullNext]_vars

\* The transform of a module and its load have not started.
MainIdle ==
  /\ module = << >>
  /\ empty = FALSE
  /\ phase = "none"
  /\ extracted = << >>
  /\ ast = << >>
  /\ goalGuard = << >>
  /\ driving = [block |-> 0, at |-> 0]
  /\ nameMaker = NewNameMaker
  /\ assignedNames = NoSlots
  /\ declarations = << >>
  /\ host = [debugHooks |-> FALSE, answer |-> Undefined]
  /\ hookCalls = 0
  /\ seeking = Undefined
  /\ activeFns = {}
  /\ k = << >>
  /\ pc = "transform"
  /\ cur = [c |-> 0, i |-> 0]
  /\ obs = NoObs
  /\ ran = << >>
  /\ ranArg = "none"
  /\ calls = 0
  /\ leftWith = {}
  /\ seek0 = Undefined
  /\ abnormal = FALSE
  /\ crashed = FALSE
  /\ input = << >>
  /\ statements = << >>
  /\ visiting = 0
  /\ blocks = << >>

\* --------------------------------------------- one pass at a time: frames
\* Only the making of names runs.
NameOnly ==
  /\ UNCHANGED mainVars
  /\ UNCHANGED <<blockifyVars, callVars, tryVars, switchVars, captureVars, slotsVars, activationVars, wrapperVars, logicalVars, stableVars>>

NameElseIdle ==
  /\ MainIdle
  /\ BlockifyIdle
  /\ CallIdle
  /\ TryIdle
  /\ SwitchIdle
  /\ CaptureIdle
  /\ SlotsIdle
  /\ ActivationIdle
  /\ WrapperIdle
  /\ LogicalIdle
  /\ StableIdle

\* Only the block normaliser runs.
BlockifyOnly ==
  /\ UNCHANGED mainVars
  /\ UNCHANGED <<nameVars, callVars, tryVars, switchVars, captureVars, slotsVars, activationVars, wrapperVars, logicalVars, stableVars>>

BlockifyElseIdle ==
  /\ MainIdle
  /\ NameIdle
  /\ CallIdle
  /\ TryIdle
  /\ SwitchIdle
  /\ CaptureIdle
  /\ SlotsIdle
  /\ ActivationIdle
  /\ WrapperIdle
  /\ LogicalIdle
  /\ StableIdle

\* Only the synthesis of calls runs.
CallOnly ==
  /\ UNCHANGED mainVars
  /\ UNCHANGED <<nameVars, blockifyVars, tryVars, switchVars, captureVars, slotsVars, activationVars, wrapperVars, logicalVars, stableVars>>

CallElseIdle ==
  /\ MainIdle
  /\ NameIdle
  /\ BlockifyIdle
  /\ TryIdle
  /\ SwitchIdle
  /\ CaptureIdle
  /\ SlotsIdle
  /\ ActivationIdle
  /\ WrapperIdle
  /\ LogicalIdle
  /\ StableIdle

\* Only the try rule runs.
TryOnly ==
  /\ UNCHANGED mainVars
  /\ UNCHANGED <<nameVars, blockifyVars, callVars, switchVars, captureVars, slotsVars, activationVars, wrapperVars, logicalVars, stableVars>>

TryElseIdle ==
  /\ MainIdle
  /\ NameIdle
  /\ BlockifyIdle
  /\ CallIdle
  /\ SwitchIdle
  /\ CaptureIdle
  /\ SlotsIdle
  /\ ActivationIdle
  /\ WrapperIdle
  /\ LogicalIdle
  /\ StableIdle

\* Only the switch rule runs.
SwitchOnly ==
  /\ UNCHANGED mainVars
  /\ UNCHANGED <<nameVars, blockifyVars, callVars, tryVars, captureVars, slotsVars, activationVars, wrapperVars, logicalVars, stableVars>>

SwitchElseIdle ==
  /\ MainIdle
  /\ NameIdle
  /\ BlockifyIdle
  /\ CallIdle
  /\ TryIdle
  /\ CaptureIdle
  /\ SlotsIdle
  /\ ActivationIdle
  /\ WrapperIdle
  /\ LogicalIdle
  /\ StableIdle

\* Only the declaring of capture variables runs.
CaptureOnly ==
  /\ UNCHANGED mainVars
  /\ UNCHANGED <<nameVars, blockifyVars, callVars, tryVars, switchVars, slotsVars, activationVars, wrapperVars, logicalVars, stableVars>>

CaptureElseIdle ==
  /\ MainIdle
  /\ NameIdle
  /\ BlockifyIdle
  /\ CallIdle
  /\ TryIdle
  /\ SwitchIdle
  /\ SlotsIdle
  /\ ActivationIdle
  /\ WrapperIdle
  /\ LogicalIdle
  /\ StableIdle

\* Only the run of capture assignments runs.
SlotsOnly ==
  /\ UNCHANGED mainVars
  /\ UNCHANGED <<nameVars, blockifyVars, callVars, tryVars, switchVars, captureVars, activationVars, wrapperVars, logicalVars, stableVars>>

SlotsElseIdle ==
  /\ MainIdle
  /\ NameIdle
  /\ BlockifyIdle
  /\ CallIdle
  /\ TryIdle
  /\ SwitchIdle
  /\ CaptureIdle
  /\ ActivationIdle
  /\ WrapperIdle
  /\ LogicalIdle
  /\ StableIdle

\* Only the run of call blocks runs.
ActivationOnly ==
  /\ UNCHANGED mainVars
  /\ UNCHANGED <<nameVars, blockifyVars, callVars, tryVars, switchVars, captureVars, slotsVars, wrapperVars, logicalVars, stableVars>>

ActivationElseIdle ==
  /\ MainIdle
  /\ NameIdle
  /\ BlockifyIdle
  /\ CallIdle
  /\ TryIdle
  /\ SwitchIdle
  /\ CaptureIdle
  /\ SlotsIdle
  /\ WrapperIdle
  /\ LogicalIdle
  /\ StableIdle

\* Only the run of an iterator wrapper runs.
WrapperOnly ==
  /\ UNCHANGED mainVars
  /\ UNCHANGED <<nameVars, blockifyVars, callVars, tryVars, switchVars, captureVars, slotsVars, activationVars, logicalVars, stableVars>>

WrapperElseIdle ==
  /\ MainIdle
  /\ NameIdle
  /\ BlockifyIdle
  /\ CallIdle
  /\ TryIdle
  /\ SwitchIdle
  /\ CaptureIdle
  /\ SlotsIdle
  /\ ActivationIdle
  /\ LogicalIdle
  /\ StableIdle

\* Only the run of a logical helper runs.
LogicalOnly ==
  /\ UNCHANGED mainVars
  /\ UNCHANGED <<nameVars, blockifyVars, callVars, tryVars, switchVars, captureVars, slotsVars, activationVars, wrapperVars, stableVars>>

LogicalElseIdle ==
  /\ MainIdle
  /\ NameIdle
  /\ BlockifyIdle
  /\ CallIdle
  /\ TryIdle
  /\ SwitchIdle
  /\ CaptureIdle
  /\ SlotsIdle
  /\ ActivationIdle
  /\ WrapperIdle
  /\ StableIdle

\* Only the making of a stable accessor runs.
StableOnly ==
  /\ UNCHANGED mainVars
  /\ UNCHANGED <<nameVars, blockifyVars, callVars, tryVars, switchVars, captureVars, slotsVars, activationVars, wrapperVars, logicalVars>>

StableElseIdle ==
  /\ MainIdle
  /\ NameIdle
  /\ BlockifyIdle
  /\ CallIdle
  /\ TryIdle
  /\ SwitchIdle
  /\ CaptureIdle
  /\ SlotsIdle
  /\ ActivationIdle
  /\ WrapperIdle
  /\ LogicalIdle

\* ------------------------------------------------------------- properties
RECURSIVE SumSeq(_)
SumSeq(q) == IF q = << >> THEN 0 ELSE Head(q) + SumSeq(Tail(q))

Running == phase \in {"run", "done"}

OpenCallBlocks(stack) ==
  Cardinality({j \in 1..Len(stack) : stack[j].type = "site" /\ stack[j].flag})

\* C1: with the seeking variable equal to 0 every rewritten construct decides
\* as the original construct does (the same arm, the same iterations, the
\* same case, the same elements in the same order, no conditional throw, the
\* same operands evaluated and the same operand returned by or/and), and a
\* load that starts with 0 runs no goal body and enters no synthesised call
\* block.
C1_SeekZeroIsOriginal ==
  /\ (obs.kind # "none" /\ obs.seek = 0) => obs.emitted = obs.original
  /\ (Running /\ seek0 = 0) => (SumSeq(ran) = 0 /\ calls = 0)

C1_Witness ==
  /\ phase = "run" /\ pc = "exit"
  /\ obs.kind = "ForOf" /\ obs.seek = 0 /\ seek0 = 0
  /\ obs.original = << >> /\ obs.emitted = << >>
  /\ level.kind = "ForOf" /\ level.op = "wrap"

C4_SeekingOnlyReset ==
  /\ [][phase = "run" => seeking' \in {seeking, 0}]_vars
  /\ [](SumSeq(ran) <= 1)

C4_Witness ==
  /\ phase = "run" /\ pc = "enter" /\ k # << >>
  /\ cur.i = Len(module[cur.c]) + 1
  /\ Top.type = "fn" /\ Top.via = "goal body"
  /\ ran[cur.c] = 1 /\ seeking = 0 /\ seek0 = cur.c

\* C5: a synthesised call block that was entered is left with the seeking
\* variable equal to 0, whether the function returned, the goal body threw,
\* the function threw before the goal or an initializer threw.
C5_CallBlockLeavesZero ==
  [][OpenCallBlocks(k') < OpenCallBlocks(k) => seeking' = 0]_vars

C5_Witness ==
  /\ phase = "done" /\ crashed /\ calls = 1 /\ leftWith = {0}
  /\ SumSeq(ran) = 0 /\ seek0 = 1

C7_OneEntryPerComeHere ==
  phase = "returned" =>
    Len(blocks) = Cardinality({j \in 1..Len(input) : isComehereBlock(input[j])})

\* C8: after the capture pass a `return E` that COMEHERE blocks follow has
\* become `let R;` without initialiser and a try statement that returns
\* `R = E` and has the COMEHERE blocks, reading R, in its finalizer.
C8_ReturnInTryFinally ==
  phase \in {"extractBlock", "returned"} =>
    \A j \in 1..Len(input) :
      (input[j].t = "return" /\ input[j].arg = "E" /\ j < Len(input)
         /\ isComehereBlock(input[j + 1]))
      => \E m \in 1..Len(statements) :
           /\ statements[m].t = "let" /\ statements[m].arg = "none"
           /\ m < Len(statements)
           /\ statements[m + 1].t = "try" /\ statements[m + 1].id = j
           /\ statements[m + 1].r = statements[m].r

\* What the emitted code mentions: the mask in a prologue or a call block, a
\* wrapper around an iterable, a helper in place of an operator.
Referenced(name) ==
  \E c \in 1..Len(ast) : \E i \in 1..Len(ast[c]) :
    CASE name = "activeFns" -> ast[c][i].bitIndex # NoName
      [] name = "maybeNotEmptyIterator" ->
           ast[c][i].kind = "ForOf" /\ ast[c][i].op = "wrap"
      [] name = "maybeNotEmptyKeyIterator" ->
           ast[c][i].kind = "ForIn" /\ ast[c][i].op = "wrap"
      [] name = "or" -> ast[c][i].kind = "Or" /\ ast[c][i].op = "helper"
      [] name = "and" -> ast[c][i].kind = "And" /\ ast[c][i].op = "helper"
      [] OTHER -> FALSE

SupportNames == <<"activeFns", "maybeNotEmptyIterator", "maybeNotEmptyKeyIterator",
                  "or", "and">>

C10_DebugHooksOptional ==
  (Running /\ declarations # << >>) =>
    IF host.debugHooks
    THEN /\ hookCalls = 1
         /\ seek0 = IF host.answer \in {Undefined, 0} THEN 0 ELSE host.answer
    ELSE seek0 = 0 /\ hookCalls = 0

\* ------------------------------------------------------------ making names
MaxNames == 3      \* calls of unusedName on one NameMaker

\* The prefixes asked for and the names the program may mention: a name made
\* for one prefix can be a prefix itself.
NameHints == {"x", "x_0"}
SourceNames == {"x_0", "x_1", "x_0_0"}

\* Where an identifier stands in the program.
Places == {"absent", "variable", "ObjectProperty key", "computed key",
           "shorthand key", "member property", "computed member property"}

\* namesUsedIn: every identifier but the key of a property that is neither
\* computed nor shorthand and the property of a member expression that is
\* not computed.
namesUsedIn(ids) ==
  {n \in DOMAIN ids : ids[n] \notin {"absent", "ObjectProperty key", "member property"}}

NameInit ==
  /\ identifiers \in [SourceNames -> Places]
  /\ maker = [namesUsed |-> namesUsedIn(identifiers),
              counters |-> [p \in NameHints |-> 0]]
  /\ made = << >>
  /\ NameElseIdle

\* NameMaker.unusedName(identifierPrefix).
unusedName ==
  /\ Len(made) < MaxNames
  /\ \E identifierPrefix \in NameHints :
       LET r == unusedNameAndSuffixNum(maker, identifierPrefix)
       IN /\ made' = Append(made, [prefix |-> identifierPrefix, name |-> r.name,
                                   suffixNum |-> r.suffixNum])
          /\ maker' = r.nm
  /\ UNCHANGED identifiers
  /\ NameOnly

NameNext == unusedName

NameSpec == NameInit /\ [][NameNext]_vars

\* C11: every name unusedName returns is `<prefix>_<n>`, is not a name the
\* program uses as namesUsedIn collects them (computed and shorthand keys
\* count, plain property keys and member properties do not), and differs from
\* every name returned before; the suffixes of one prefix increase strictly
\* and each is the smallest number not tried before whose name is unused.
C11_FreshNames ==
  \A j \in 1..Len(made) :
    /\ made[j].name = made[j].prefix \o "_" \o ToString(made[j].suffixNum)
    /\ made[j].name \in SourceNames =>
         identifiers[made[j].name] \in {"absent", "ObjectProperty key",
                                        "member property"}
    /\ \A i \in 1..(j - 1) :
         /\ made[i].name # made[j].name
         /\ made[i].prefix = made[j].prefix => made[i].suffixNum < made[j].suffixNum
    /\ \A n \in 0..(made[j].suffixNum - 1) :
         \/ \E i \in 1..(j - 1) :
              made[i].prefix = made[j].prefix /\ n <= made[i].suffixNum
         \/ /\ candidate(made[j].prefix, n) \in SourceNames
            /\ identifiers[candidate(made[j].prefix, n)]
                 \notin {"absent", "ObjectProperty key", "member property"}

C11_Witness ==
  /\ Len(made) = 3
  /\ identifiers["x_0"] = "member property"
  /\ identifiers["x_1"] = "computed key"
  /\ identifiers["x_0_0"] = "shorthand key"
  /\ made[1].name = "x_0" /\ made[2].name = "x_0_1" /\ made[3].name = "x_2"

\* ---------------------------------------------------------------- blockify
MaxNesting == 3    \* statements nested in one another
MaxBody == 2       \* statements of a block

\* A node: its type, its children (the statements of a block, the consequent
\* of an if, the body of a loop, a with or an arrow function, the argument of
\* a return) and the alternate of an if.
node(t, kids, alt) == [t |-> t, kids |-> kids, alt |-> alt]

\* The loop statements of the language.
LoopStatements == {"for", "forin", "forof", "while", "dowhile"}

\* A loop that forgets do-while.
LoopsWithoutDoWhile == {"for", "forin", "forof", "while"}

\* The types that the Loop alias of the visitor stands for.
Loops == {"for", "forin", "forof", "while", "dowhile"}

\* The trees given to blockify: along one path statements nest in one
\* another, beside it they are plain expression statements.
Plain == node("expr", << >>, << >>)

RECURSIVE Statements(_)
RECURSIVE Arrows(_)
BlocksOver(S) ==
  {node("block", << >>, << >>)}
  \cup {node("block", <<first>> \o [j \in 1..more |-> Plain], << >>) :
          first \in S, more \in 0..(MaxBody - 1)}

Arrows(d) ==
  IF d = 0 THEN {}
  ELSE {node("arrow", <<b>>, << >>) :
          b \in {node("expression", << >>, << >>)} \cup Arrows(d - 1)
                \cup BlocksOver(Statements(d - 1))}

Statements(d) ==
  IF d = 0 THEN {Plain}
  ELSE LET S == Statements(d - 1)
       IN S \cup BlocksOver(S)
            \cup {node("if", <<c>>, << >>) : c \in S}
            \cup {node("if", <<c>>, <<Plain>>) : c \in S}
            \cup {node("if", <<Plain>>, <<a>>) : a \in S}
            \cup {node(l, <<b>>, << >>) : l \in LoopStatements \cup {"with"}, b \in S}
            \cup Arrows(d)

isExpression(n) == n.t \in {"expression", "arrow"}

\* blockify: the visitors act on exit, after the children; a node that
\* replaces another is traversed in its turn.
RECURSIVE blockify(_)
maybeBlockifyPath(n) ==
  IF n.t # "block" THEN node("block", <<blockify(n)>>, << >>) ELSE n

blockify(n) ==
  LET kids == [i \in 1..Len(n.kids) |-> blockify(n.kids[i])]
      alt == [i \in 1..Len(n.alt) |-> blockify(n.alt[i])]
  IN CASE n.t = "if" ->
            node("if", <<maybeBlockifyPath(kids[1])>>,
                 IF alt # << >> /\ alt[1].t # "if"
                 THEN <<maybeBlockifyPath(alt[1])>> ELSE alt)
       [] n.t \in Loops \cup {"with"} ->
            node(n.t, <<maybeBlockifyPath(kids[1])>>, alt)
       [] n.t = "arrow" ->
            IF isExpression(kids[1])
            THEN node("arrow",
                      <<node("block", <<node("return", <<kids[1]>>, << >>)>>, << >>)>>,
                      alt)
            ELSE node("arrow", kids, alt)
       [] OTHER -> node(n.t, kids, alt)

BlockifyInit ==
  /\ tree \in Statements(MaxNesting)
  /\ once = << >>
  /\ twice = << >>
  /\ applied = 0
  /\ BlockifyElseIdle

\* transform: `blockify(ast)`.
blockifyAst ==
  /\ applied = 0
  /\ once' = blockify(tree)
  /\ applied' = 1
  /\ UNCHANGED <<tree, twice>>
  /\ BlockifyOnly

\* blockify on a tree that has been through it.
blockifyAgain ==
  /\ applied = 1
  /\ twice' = blockify(once)
  /\ applied' = 2
  /\ UNCHANGED <<tree, once>>
  /\ BlockifyOnly

BlockifyNext == blockifyAst \/ blockifyAgain

BlockifySpec == BlockifyInit /\ [][BlockifyNext]_vars

\* Every consequent, every alternate that is not an if, every body of a loop
\* or a with and every body of an arrow function is a block.
RECURSIVE Blockified(_)
Blockified(n) ==
  /\ n.t = "if" => n.kids[1].t = "block"
  /\ (n.t = "if" /\ n.alt # << >>) => n.alt[1].t \in {"block", "if"}
  /\ n.t \in {"for", "forin", "forof", "while", "dowhile", "with", "arrow"}
       => n.kids[1].t = "block"
  /\ \A i \in 1..Len(n.kids) : Blockified(n.kids[i])
  /\ \A i \in 1..Len(n.alt) : Blockified(n.alt[i])

\* C12: after blockify every if consequent, every else alternate that is not
\* an if statement, every loop body, every with body and every arrow body is
\* a block; an else-if stays an if; an expression body becomes a block with
\* one return of it; and blockify applied twice gives the tree blockify
\* applied once gives.
C12_BlockifyNormalises ==
  /\ applied >= 1 =>
       /\ Blockified(once)
       /\ (tree.t = "if" /\ tree.alt # << >> /\ tree.alt[1].t = "if")
            => once.alt[1].t = "if"
       /\ (tree.t = "arrow" /\ tree.kids[1].t = "expression")
            => once.kids[1] = node("block", <<node("return", tree.kids, << >>)>>, << >>)
  /\ applied = 2 => twice = once

C12_Witness ==
  /\ applied = 2 /\ twice = once /\ once # tree
  /\ tree.t = "if" /\ tree.alt # << >> /\ tree.alt[1].t = "if"
  /\ tree.alt[1].kids[1].t = "dowhile"
  /\ once.alt[1].kids[1].t = "block"
  /\ once.alt[1].kids[1].kids[1].kids[1].t = "block"

\* ------------------------------------------------------------ call synthesis
MaxInits == 2

CallHints == {"callee", "f", "this", "class", "accessor"}

\* The left sides the items of a with-list are written with: chains of
\* non-computed members. A first part "this" is the keyword, a ThisExpression;
\* every other part is an Identifier (after a dot a keyword is an Identifier).
Lefts ==
  {<<"C", "f", "a">>, <<"f", "a">>, <<"a">>, <<"f", "b">>, <<"b">>,
   <<"C", "this">>, <<"C", "f", "this">>, <<"f", "this">>, <<"this">>,
   <<"C", "this", "a">>, <<"this", "a">>, <<"C", "this", "b">>, <<"catch", "a">>,
   <<"z">>}

\* An item of a with-list as the extractor reads it: the type of the node, its
\* operator, its left side as the parts of a member chain (none when the node
\* has no left side), whether a member of that chain is computed, its right
\* side, its name when it is an Identifier.
withItem(type, operator, left, computed, right, name) ==
  [type |-> type, operator |-> operator, left |-> left, computed |-> computed,
   right |-> right, name |-> name]

\* `left = right`
assignmentItem(left, right) ==
  withItem("AssignmentExpression", "=", left, FALSE, right, Null)

\* The with-lists of n items; the right side of item i is the expression i.
WithLists(n) ==
  {[i \in 1..n |-> assignmentItem(l[i], i)] : l \in [1..n -> Lefts]}

ParamLists == {<< >>, <<"a">>, <<"a", "b">>}

\* A function node with what adjust reads of it and of its surroundings. Its
\* params are the names paramNameOf gives; defaults holds the places of the
\* parameters that are assignment patterns; goalKey is the child of the
\* function the goal is in.
Callable ==
  [type |-> "FunctionDeclaration", id |-> "f", keyType |-> Null, key |-> Null,
   computed |-> FALSE, static |-> FALSE, kind |-> Null, generator |-> FALSE,
   params |-> << >>, parent |-> "Program", class |-> Null, className |-> Null,
   hasConstructor |-> FALSE, constructorParams |-> << >>,
   defaults |-> {}, constructorDefaults |-> {}, goalKey |-> "body"]

PlainFunctions ==
  {[Callable EXCEPT !.generator = g, !.params = ps]
     : g \in BOOLEAN, ps \in ParamLists}
  \cup {[Callable EXCEPT !.type = "FunctionExpression", !.id = id,
                         !.parent = "Expression", !.generator = g, !.params = ps]
          : id \in {"f", Null}, g \in BOOLEAN, ps \in ParamLists}
  \cup {[Callable EXCEPT !.type = "ArrowFunctionExpression", !.id = Null,
                         !.parent = "Expression", !.params = ps]
          : ps \in ParamLists}

\* The key of a member: a plain name, a computed expression, a private name.
MemberKeys ==
  {[keyType |-> "Identifier", computed |-> FALSE],
   [keyType |-> "Identifier", computed |-> TRUE],
   [keyType |-> "PrivateName", computed |-> FALSE]}

\* Kinds of members with the parameter lists and generator marks they allow.
MemberKinds ==
  {[kind |-> "method", generator |-> g, params |-> ps]
     : g \in BOOLEAN, ps \in ParamLists}
  \cup {[kind |-> "get", generator |-> FALSE, params |-> << >>],
        [kind |-> "set", generator |-> FALSE, params |-> <<"a">>]}

ClassKinds ==
  {[class |-> "ClassDeclaration", className |-> "C"],
   [class |-> "ClassExpression", className |-> "C"],
   [class |-> "ClassExpression", className |-> Null]}

Constructors ==
  {[hasConstructor |-> FALSE, constructorParams |-> << >>]}
  \cup {[hasConstructor |-> TRUE, constructorParams |-> ps] : ps \in ParamLists}

ClassMembers ==
  {[Callable EXCEPT
      !.type = IF mk.keyType = "PrivateName" THEN "ClassPrivateMethod"
               ELSE "ClassMethod",
      !.id = Null, !.keyType = mk.keyType, !.key = "f", !.computed = mk.computed,
      !.static = st, !.kind = kd.kind, !.generator = kd.generator,
      !.params = kd.params, !.parent = "ClassBody", !.class = ck.class,
      !.className = ck.className, !.hasConstructor = co.hasConstructor,
      !.constructorParams = co.constructorParams]
     : mk \in MemberKeys, st \in BOOLEAN, kd \in MemberKinds, ck \in ClassKinds,
       co \in Constructors}
  \cup {[Callable EXCEPT
           !.type = "ClassMethod", !.id = Null, !.keyType = "Identifier",
           !.key = "constructor", !.kind = "constructor", !.params = ps,
           !.parent = "ClassBody", !.class = ck.class, !.className = ck.className,
           !.hasConstructor = TRUE, !.constructorParams = ps]
          : ps \in ParamLists, ck \in ClassKinds}

ObjectMembers ==
  {[Callable EXCEPT
      !.type = "ObjectMethod", !.id = Null, !.keyType = "Identifier", !.key = "f",
      !.computed = cp, !.kind = kd.kind, !.generator = kd.generator,
      !.params = kd.params, !.parent = "ObjectExpression"]
     : cp \in BOOLEAN, kd \in MemberKinds}

Functions == PlainFunctions \cup ClassMembers \cup ObjectMembers

\* A catch clause, written in the shape of the other constructs: its
\* parameter is params[1].
CatchClause(param) ==
  [Callable EXCEPT !.type = "CatchClause", !.id = Null, !.parent = "TryStatement",
                   !.params = <<param>>]

\* What may stand between the goal and the function whose call is synthesised.
Inner ==
  {CatchClause("a"),
   [Callable EXCEPT !.type = "ArrowFunctionExpression", !.id = Null,
                    !.parent = "Expression", !.params = <<"a">>]}

AncestorChains == {<<fn>> : fn \in Functions}
                  \cup {<<in, fn>> : in \in Inner, fn \in Functions}

\* Array.prototype.join('.') ; an undefined part is printed as nothing.
RECURSIVE join(_)
join(parts) ==
  IF parts = << >> THEN ""
  ELSE IF Len(parts) = 1 THEN parts[1]
  ELSE parts[1] \o "." \o join(Tail(parts))

undefinedAsEmpty(name) == IF name = Null THEN "" ELSE name

\* extractComeHereBlocks, the loop over the parts of a left side: it ends at
\* an Identifier; a ThisExpression is neither an Identifier nor a member.
isDottedPath(left) == left[1] # "this"

RECURSIVE findIndex(_, _, _)
findIndex(list, wantedDottedName, i) ==
  IF i > Len(list) THEN 0
  ELSE IF list[i].dottedName = wantedDottedName THEN i
  ELSE findIndex(list, wantedDottedName, i + 1)

removeAt(list, i) == SubSeq(list, 1, i - 1) \o SubSeq(list, i + 1, Len(list))

\* lookupAndConsumeParam without the splice.
lookupAndKeepParam(st, prefix, paramName, slot) ==
  LET wantedDottedName == join(prefix \o <<paramName>>)
      initializerIndex == findIndex(st.inits, wantedDottedName, 1)
  IN IF initializerIndex > 0
     THEN [right |-> st.inits[initializerIndex].right,
           st |-> [inits |-> st.inits,
                   consumed |-> Append(st.consumed,
                                  [dottedName |-> wantedDottedName,
                                   right |-> st.inits[initializerIndex].right,
                                   slot |-> slot])]]
     ELSE [right |-> 0, st |-> st]

\* lookupAndConsumeParam(prefix, paramName): the first initializer with that
\* dotted name is taken out of the list; right 0 stands for null. The slot
\* says what the initializer was wanted for.
lookupAndConsumeParam(st, prefix, paramName, slot) ==
  LET wantedDottedName == join(prefix \o <<paramName>>)
      initializerIndex == findIndex(st.inits, wantedDottedName, 1)
  IN IF initializerIndex > 0
     THEN [right |-> st.inits[initializerIndex].right,
           st |-> [inits |-> removeAt(st.inits, initializerIndex),
                   consumed |-> Append(st.consumed,
                                  [dottedName |-> wantedDottedName,
                                   right |-> st.inits[initializerIndex].right,
                                   slot |-> slot])]]
     ELSE [right |-> 0, st |-> st]

\* The expressions a declarator is initialised with.
initializerExpression(right) ==
  [type |-> "initializer", right |-> right, name |-> Null, arguments |-> << >>]

identifierExpression(name) ==
  [type |-> "Identifier", right |-> 0, name |-> name, arguments |-> << >>]

newExpression(className, argumentList) ==
  [type |-> "NewExpression", right |-> 0, name |-> className,
   arguments |-> argumentList]

NoExpression == [type |-> "none", right |-> 0, name |-> Null, arguments |-> << >>]

variableDeclarator(id, init) == [id |-> id, init |-> init]

\* buildArgumentList, the loops over prefixes and parameters.
RECURSIVE fillArguments(_, _, _, _, _, _)
fillArguments(acc, params, prefixes, slotKind, p, i) ==
  IF p > Len(prefixes) THEN acc
  ELSE IF i > Len(params) THEN fillArguments(acc, params, prefixes, slotKind, p + 1, 1)
  ELSE IF acc.argumentList[i].right # 0
  THEN fillArguments(acc, params, prefixes, slotKind, p, i + 1)
  ELSE LET r == lookupAndConsumeParam(acc.st, prefixes[p], params[i],
                                      slotKind \o ":" \o params[i])
       IN fillArguments([argumentList |-> [acc.argumentList EXCEPT ![i].right = r.right],
                         st |-> r.st],
                        params, prefixes, slotKind, p, i + 1)

\* buildArgumentList without the placeholders for the gaps.
RECURSIVE positionalWithoutGaps(_, _, _)
positionalWithoutGaps(argumentList, i, acc) ==
  IF i > Len(argumentList) THEN acc
  ELSE IF argumentList[i].right = 0
  THEN positionalWithoutGaps(argumentList, i + 1, acc)
  ELSE positionalWithoutGaps(argumentList, i + 1, acc \o <<argumentList[i].name>>)

\* buildArgumentList, the positional list: `void 0` for a gap before a
\* resolved parameter, nothing after the last resolved one.
RECURSIVE positionalArgumentExpressions(_, _, _)
positionalArgumentExpressions(argumentList, i, acc) ==
  IF i > Len(argumentList) THEN acc
  ELSE IF argumentList[i].right = 0
  THEN positionalArgumentExpressions(argumentList, i + 1, acc)
  ELSE positionalArgumentExpressions(
         argumentList, i + 1,
         acc \o [j \in 1..(i - 1 - Len(acc)) |-> "void 0"] \o <<argumentList[i].name>>)

\* buildArgumentList, the declarators: one for each resolved parameter.
RECURSIVE declaratorsOf(_, _)
declaratorsOf(argumentList, i) ==
  IF i > Len(argumentList) THEN << >>
  ELSE (IF argumentList[i].right = 0 THEN << >>
        ELSE <<variableDeclarator(argumentList[i].name,
                                  initializerExpression(argumentList[i].right))>>)
       \o declaratorsOf(argumentList, i + 1)

\* buildArgumentList, the warning: `#i:` and the name after the first prefix
\* for each unsupplied parameter, the index counted from 0.
RECURSIVE missingArguments(_, _, _, _)
missingArguments(params, unsupplied, prefix, i) ==
  IF i > Len(params) THEN << >>
  ELSE (IF i \in unsupplied
        THEN <<[index |-> i - 1, name |-> prefix \o params[i]]>>
        ELSE << >>)
       \o missingArguments(params, unsupplied, prefix, i + 1)

\* buildArgumentList(params, prefixes).
buildArgumentList(st, params, defaults, prefixes, slotKind) ==
  LET filled == fillArguments(
                  [argumentList |-> [i \in 1..Len(params) |->
                                       [name |-> params[i], right |-> 0]],
                   st |-> st],
                  params, prefixes, slotKind, 1, 1)
      unsupplied == {i \in 1..Len(params) :
                       filled.argumentList[i].right = 0 /\ i \notin defaults}
      prefix == IF prefixes[1] # << >> THEN join(prefixes[1]) \o "." ELSE ""
  IN [st |-> filled.st,
      declarators |-> declaratorsOf(filled.argumentList, 1),
      positional |-> positionalArgumentExpressions(filled.argumentList, 1, << >>),
      unsupplied |-> unsupplied,
      warnings |-> IF unsupplied # {}
                   THEN <<[list |-> slotKind,
                           missing |-> missingArguments(params, unsupplied, prefix, 1)]>>
                   ELSE << >>]

\* The prefixes of the main call, the least specific first.
prefixesLeastSpecificFirst(containingClassName, nameId) ==
  << << >> >>
  \o (IF nameId # Null THEN <<<<nameId>>>> ELSE << >>)
  \o (IF containingClassName # Null /\ nameId # Null
      THEN <<<<containingClassName, nameId>>>> ELSE << >>)

\* The prefixes of the main call, in descending order of specificity.
prefixesOf(containingClassName, nameId) ==
  (IF containingClassName # Null /\ nameId # Null
   THEN <<<<containingClassName, nameId>>>> ELSE << >>)
  \o (IF nameId # Null THEN <<<<nameId>>>> ELSE << >>)
  \o << << >> >>

constructorArgumentPrefixes(containingClassName) ==
  (IF containingClassName # Null THEN <<<<containingClassName, "this">>>> ELSE << >>)
  \o <<<<"this">>>>

\* `f.this` binds the this value: the prefixes in order until one is found.
RECURSIVE firstThis(_, _, _)
firstThis(st, prefixes, p) ==
  IF p > Len(prefixes) THEN [right |-> 0, st |-> st]
  ELSE LET r == lookupAndConsumeParam(st, prefixes[p], "this", "this")
       IN IF r.right # 0 THEN r ELSE firstThis(st, prefixes, p + 1)

\* A name from the maker when one is needed, no name otherwise.
nameIf(needed, nm, hint) ==
  IF needed
  THEN LET r == unusedNameAndSuffixNum(nm, hint) IN [name |-> r.name, nm |-> r.nm]
  ELSE [name |-> Null, nm |-> nm]

NoInvocation ==
  [form |-> "none", callee |-> Null, receiver |-> Null, key |-> Null,
   arguments |-> << >>, next |-> FALSE]

\* The invocation of the call block, before `.next()`.
invocationExpressionFor(methodKeyExpression, methodKind, thisName, className,
                     calleeName, fnKind, argumentList) ==
  IF methodKeyExpression # Null
  THEN [NoInvocation EXCEPT
          !.form = CASE methodKind = "method" -> "receiver.key(args)"
                     [] methodKind = "get" -> "receiver.key"
                     [] methodKind = "set" -> "receiver.key = arg",
          !.receiver = IF thisName # Null THEN thisName ELSE className,
          !.key = methodKeyExpression,
          !.arguments = IF methodKind = "method" THEN argumentList
                        ELSE IF methodKind = "get" THEN << >>
                        ELSE IF argumentList # << >> THEN <<argumentList[1]>>
                        ELSE <<"null">>]
  ELSE IF thisName # Null
  THEN [NoInvocation EXCEPT !.form = "Reflect.apply(callee, receiver, [args])",
                            !.callee = calleeName, !.receiver = thisName,
                            !.arguments = argumentList]
  ELSE IF className # Null /\ fnKind = "constructor"
  THEN [NoInvocation EXCEPT !.form = "new callee(args)", !.callee = className,
                            !.arguments = argumentList]
  ELSE [NoInvocation EXCEPT !.form = "callee(args)", !.callee = calleeName,
                            !.arguments = argumentList]

\* The invocation is built with types.identifier(null): a callee or a
\* receiver that has no name.
namesNull(invocation) ==
  \/ invocation.form \in {"Reflect.apply(callee, receiver, [args])", "new callee(args)",
                          "callee(args)"}
     /\ invocation.callee = Null
  \/ invocation.form \in {"receiver.key(args)", "receiver.key", "receiver.key = arg",
                          "Reflect.apply(callee, receiver, [args])"}
     /\ invocation.receiver = Null

ExportDeclarations == {"ExportNamedDeclaration", "ExportDefaultDeclaration"}

\* adjust, the function rule: the declarators and the invocation of the call
\* block, taking initializers out of the list.
adjustFunction(fn, inits, nm) ==
  LET containingClass == fn.parent = "ClassBody"
      isObjectMethod == fn.type = "ObjectMethod"
      nameId == IF fn.id # Null THEN fn.id
                ELSE IF fn.keyType = "Identifier" /\ ~fn.computed THEN fn.key
                ELSE Null
      containingClassName == IF containingClass THEN fn.className ELSE Null
      classThis == lookupAndConsumeParam([inits |-> inits, consumed |-> << >>],
                                         <<undefinedAsEmpty(containingClassName)>>,
                                         "this", "this")
      prefixes == prefixesOf(containingClassName, nameId)
      thisArgument == IF classThis.right = 0 /\ fn.type # "ArrowFunctionExpression"
                      THEN firstThis(classThis.st, prefixes, 1)
                      ELSE classThis
      callee == nameIf(~(containingClass \/ isObjectMethod), nm, "callee")
      function == IF containingClass THEN [name |-> Null, nm |-> callee.nm]
                  ELSE IF fn.type = "FunctionDeclaration"
                  THEN [name |-> fn.id, nm |-> callee.nm]
                  ELSE nameIf(TRUE, callee.nm, "f")
      class == IF containingClass /\ containingClassName # Null
               THEN [name |-> containingClassName, nm |-> function.nm]
               ELSE nameIf(containingClass, function.nm, "class")
      needInstance == /\ thisArgument.right = 0
                      /\ containingClass
                      /\ ~fn.static
                      /\ fn.kind # "constructor"
      constructorArguments ==
        IF needInstance /\ fn.hasConstructor
        THEN buildArgumentList(thisArgument.st, fn.constructorParams,
                               fn.constructorDefaults,
                               constructorArgumentPrefixes(containingClassName),
                               "constructor")
        ELSE [st |-> thisArgument.st, declarators |-> << >>, positional |-> << >>,
              unsupplied |-> {}, warnings |-> << >>]
      hasThis == needInstance \/ thisArgument.right # 0
      this == nameIf(hasThis \/ isObjectMethod, class.nm, "this")
      arguments == buildArgumentList(constructorArguments.st, fn.params,
                                     fn.defaults, prefixes, "param")
      isMember == (containingClass \/ isObjectMethod) /\ fn.kind # "constructor"
      plainKey == ~fn.computed /\ fn.keyType = "Identifier"
      accessor == nameIf(isMember /\ ~plainKey, this.nm, "accessor")
      methodKeyExpression == IF ~isMember THEN Null
                             ELSE IF plainKey THEN fn.key
                             ELSE accessor.name
      invocationOfCall ==
        invocationExpressionFor(methodKeyExpression, fn.kind, this.name, class.name,
                                callee.name, fn.kind, arguments.positional)
      containerPath == IF fn.parent \in ExportDeclarations THEN "Program"
                       ELSE fn.parent
  IN [type |-> fn.type,
      thrown |-> IF fn.goalKey # "body" THEN "TODO"
                 ELSE IF fn.type = "FunctionDeclaration" /\ containerPath # "Program"
                 THEN "Blockify failed " \o containerPath
                 ELSE Null,
      identifierOfNull |-> fn.goalKey = "body" /\ namesNull(invocationOfCall),
      consumed |-> arguments.st.consumed,
      declarators |->
        (IF callee.name # Null
         THEN <<variableDeclarator(callee.name, identifierExpression(function.name))>>
         ELSE << >>)
        \o constructorArguments.declarators
        \o (IF hasThis
            THEN <<variableDeclarator(
                     this.name,
                     IF needInstance
                     THEN newExpression(class.name, constructorArguments.positional)
                     ELSE initializerExpression(thisArgument.right))>>
            ELSE << >>)
        \o arguments.declarators,
      invocation |-> [invocationOfCall EXCEPT !.next = fn.generator],
      throwable |-> NoExpression,
      stableMethodName |-> accessor.name,
      warnings |-> constructorArguments.warnings \o arguments.warnings,
      inits |-> arguments.st.inits,
      nm |-> accessor.nm]

\* adjust, the try rule for a goal in the handler: what the conditional throw
\* at the start of the try block throws.
adjustTry(handler, inits, nm) ==
  LET catchParamName == handler.params[1]
      st == [inits |-> inits, consumed |-> << >>]
      qualified == IF catchParamName # Null
                   THEN lookupAndConsumeParam(st, <<"catch">>, catchParamName, "catch")
                   ELSE [right |-> 0, st |-> st]
      found == IF catchParamName # Null /\ qualified.right = 0
               THEN lookupAndConsumeParam(st, << >>, catchParamName, "catch")
               ELSE qualified
  IN [type |-> handler.type,
      thrown |-> Null,
      identifierOfNull |-> FALSE,
      consumed |-> found.st.consumed,
      declarators |-> << >>,
      invocation |-> NoInvocation,
      throwable |-> IF found.right # 0 THEN initializerExpression(found.right)
                    ELSE newExpression("globalThis.Error", << >>),
      stableMethodName |-> Null,
      warnings |-> << >>,
      inits |-> found.st.inits,
      nm |-> nm]

CallInit ==
  /\ ancestors \in AncestorChains
  /\ \E n \in 0..MaxInits : written \in WithLists(n)
  /\ initializers = << >>
  /\ malformed = << >>
  /\ adjusted = << >>
  /\ unused = << >>
  /\ callNames = [namesUsed |-> {"C", "f", "a", "b", "z"},
                  counters |-> [h \in CallHints |-> 0]]
  /\ stage = "parsed"
  /\ thrown = Null
  /\ CallElseIdle

\* extractComeHereBlocks, the body of initializer_loop for one item: the item
\* is passed over, reported with one of two messages, or recorded.
deconstruct(it) ==
  IF it.type = "Identifier" /\ it.name = "_" THEN "continue"
  ELSE IF ~(it.type = "AssignmentExpression" \/ it.operator # "=")
  THEN "expected assignment"
  ELSE IF it.left = << >> \/ it.computed \/ ~isDottedPath(it.left)
  THEN "expected assignment to dotted path"
  ELSE "push"

\* The items with their places in the list.
RECURSIVE placed(_, _)
placed(list, i) ==
  IF i > Len(list) THEN << >>
  ELSE <<[index |-> i, item |-> list[i], outcome |-> deconstruct(list[i])]>>
       \o placed(list, i + 1)

\* extractComeHereBlocks: the with-list is taken apart into pairs of dotted
\* path and right side; an item that is no dotted path is reported.
deconstructInitializers ==
  /\ stage = "parsed"
  /\ LET wellFormed == SelectSeq(placed(written, 1), LAMBDA pl : pl.outcome = "push")
     IN initializers' = [i \in 1..Len(wellFormed) |->
                           [dottedName |-> join(wellFormed[i].item.left),
                            right |-> wellFormed[i].item.right]]
  /\ malformed' = SelectSeq(placed(written, 1),
                            LAMBDA pl : pl.outcome \notin {"push", "continue"})
  /\ stage' = "extracted"
  /\ UNCHANGED <<written, ancestors, adjusted, unused, callNames, thrown>>
  /\ CallOnly

\* driveControlToComeHereBlock, what follows the call of adjust with result r.
\* What adjust throws ends the transform. What types.identifier does with
\* null for a name is not in the repository: it throws a TypeError or builds
\* the node.
afterAdjust(r) ==
  \E error \in IF r.thrown # Null THEN {r.thrown}
               ELSE IF r.identifierOfNull THEN {"TypeError", Null}
               ELSE {Null} :
    IF error # Null
    THEN /\ thrown' = error
         /\ stage' = "thrown"
         /\ UNCHANGED <<adjusted, initializers, callNames>>
    ELSE /\ adjusted' = Append(adjusted,
                              [type |-> r.type, consumed |-> r.consumed,
                               declarators |-> r.declarators,
                               invocation |-> r.invocation,
                               throwable |-> r.throwable,
                               stableMethodName |-> r.stableMethodName,
                               warnings |-> r.warnings])
         /\ initializers' = r.inits
         /\ callNames' = r.nm
         /\ UNCHANGED <<thrown, stage>>

\* adjust, for the construct at path: the try rule for a handler, the function
\* rule otherwise.
adjustPath(path, inits, nm) ==
  IF path.type = "CatchClause" THEN adjustTry(path, inits, nm)
  ELSE adjustFunction(path, inits, nm)

\* driveControlToComeHereBlock, one step of the walk towards the root.
adjustAncestor ==
  /\ stage = "extracted"
  /\ Len(adjusted) < Len(ancestors)
  /\ afterAdjust(adjustPath(ancestors[Len(adjusted) + 1], initializers, callNames))
  /\ UNCHANGED <<written, ancestors, malformed, unused>>
  /\ CallOnly

\* driveControlToComeHereBlock, after the walk: the initializers left over
\* are named in one error.
reportUnused ==
  /\ stage = "extracted"
  /\ Len(adjusted) = Len(ancestors)
  /\ unused' = initializers
  /\ stage' = "driven"
  /\ UNCHANGED <<written, ancestors, initializers, malformed, adjusted, callNames,
                 thrown>>
  /\ CallOnly

CallNext == deconstructInitializers \/ adjustAncestor \/ reportUnused

CallSpec == CallInit /\ [][CallNext]_vars

\* The walk of the goal has reached the root.
Walked == stage \in {"extracted", "driven"} /\ Len(adjusted) = Len(ancestors)

\* The initializers the extractor recorded, in order.
Recorded ==
  LET wellFormed == SelectSeq(written, LAMBDA it : it.left[1] # "this")
  IN [i \in 1..Len(wellFormed) |->
        [dottedName |-> join(wellFormed[i].left), right |-> wellFormed[i].right]]

\* The right sides the constructs before construct j have consumed.
ConsumedBefore(j) ==
  {adjusted[i].consumed[c].right : <<i, c>> \in
     {ic \in (1..(j - 1)) \X (1..MaxInits) : ic[2] <= Len(adjusted[ic[1]].consumed)}}

\* The initializers left when the walk reaches construct j.
LeftFor(j) == SelectSeq(Recorded, LAMBDA it : it.right \notin ConsumedBefore(j))

\* The right sides construct j has consumed for a slot.
BoundTo(j, slot) ==
  {adjusted[j].consumed[c].right : c \in
     {d \in 1..Len(adjusted[j].consumed) : adjusted[j].consumed[d].slot = slot}}

Rights(list) == {list[i].right : i \in 1..Len(list)}

NamedRights(list, dottedName) ==
  {list[i].right : i \in {j \in 1..Len(list) : list[j].dottedName = dottedName}}

hasName(fn) == fn.id # Null \/ (fn.keyType = "Identifier" /\ ~fn.computed)

nameOf(fn) == IF fn.id # Null THEN fn.id ELSE fn.key

\* `C.f.p`, `f.p`, `p` for a method f of a class named C; `f.p`, `p` for
\* any other function named f.
SearchOrder(fn, p) ==
  (IF fn.parent = "ClassBody" /\ fn.className # Null
   THEN <<fn.className \o "." \o nameOf(fn) \o "." \o p>> ELSE << >>)
  \o <<nameOf(fn) \o "." \o p, p>>

Min(S) == CHOOSE x \in S : \A y \in S : x <= y

\* C13: when a call is synthesised for a function named f (in class C when it
\* is a method), each formal parameter p is bound to the first initializer
\* found in the order `C.f.p`, `f.p`, `p`, and to nothing when there is none;
\* the matched initializer is consumed, and every less specific initializer
\* for p that is also present is not used and stays in the remaining list.
C13_MostSpecificFirst ==
  Walked =>
    LET j == Len(ancestors)
        fn == ancestors[j]
        before == LeftFor(j)
    IN hasName(fn) =>
         \A i \in 1..Len(fn.params) :
           LET p == fn.params[i]
               order == SearchOrder(fn, p)
               present == {c \in 1..Len(order) : NamedRights(before, order[c]) # {}}
           IN IF present = {} THEN BoundTo(j, "param:" \o p) = {}
              ELSE LET first == Min(NamedRights(before, order[Min(present)]))
                   IN /\ BoundTo(j, "param:" \o p) = {first}
                      /\ \E d \in 1..Len(adjusted[j].declarators) :
                           adjusted[j].declarators[d] =
                             variableDeclarator(p, initializerExpression(first))
                      /\ first \notin Rights(initializers)
                      /\ \A c \in present \ {Min(present)} :
                           NamedRights(before, order[c]) \subseteq Rights(initializers)

\* A method of class C whose parameter has its most specific and its least
\* specific initializer in the list, the call synthesised.
C13_Witness ==
  /\ Walked
  /\ LET fn == ancestors[Len(ancestors)]
     IN /\ fn.parent = "ClassBody" /\ fn.className = "C" /\ hasName(fn)
        /\ fn.params # << >>
        /\ NamedRights(LeftFor(Len(ancestors)), "C.f.a") # {}
        /\ NamedRights(LeftFor(Len(ancestors)), "a") # {}
        /\ NamedRights(initializers, "a") # {}

\* The items of the with-list left when the walk reaches construct j.
WrittenFor(j) == SelectSeq(written, LAMBDA it : it.right \notin ConsumedBefore(j))

\* The right side of the first item written with the first of these left
\* sides that the list has; 0 when it has none of them.
FirstWritten(list, lefts) ==
  LET present == {c \in 1..Len(lefts) : \E i \in 1..Len(list) : list[i].left = lefts[c]}
  IN IF present = {} THEN 0
     ELSE Min({list[i].right : i \in {n \in 1..Len(list) :
                                        list[n].left = lefts[Min(present)]}})

\* `C.this.p`, then `this.p`.
ConstructorOrder(fn, p) == <<<<fn.className, "this", p>>, <<"this", p>>>>

\* `C.f.p`, `f.p`, `p` as they are written.
ParameterOrder(fn, p) ==
  (IF fn.parent = "ClassBody" /\ fn.className # Null /\ hasName(fn)
   THEN <<<<fn.className, nameOf(fn), p>>>> ELSE << >>)
  \o (IF hasName(fn) THEN <<<<nameOf(fn), p>>>> ELSE << >>)
  \o <<<<p>>>>

\* `C.this`, `C.m.this`, `m.this`, `this` as they are written.
ThisOrder(fn) ==
  <<<<fn.className, "this">>>>
  \o (IF hasName(fn) THEN <<<<fn.className, nameOf(fn), "this">>, <<nameOf(fn), "this">>>>
      ELSE << >>)
  \o <<<<"this">>>>

\* The declarators of the parameters from i on that the list resolves.
RECURSIVE ResolvedDeclarators(_, _, _, _)
ResolvedDeclarators(list, orders, params, i) ==
  IF i > Len(params) THEN << >>
  ELSE (IF FirstWritten(list, orders[i]) = 0 THEN << >>
        ELSE <<variableDeclarator(params[i],
                                  initializerExpression(FirstWritten(list, orders[i])))>>)
       \o ResolvedDeclarators(list, orders, params, i + 1)

\* C14: for a goal in a non-static, non-constructor method of class C with no
\* `this` initializer (`C.this`, `C.m.this`, `m.this`, `this`) the receiver is
\* `new C(...)`, the arguments being the constructor's parameters resolved
\* from `C.this.<param>` then `this.<param>` (none without a constructor), and
\* the const declaration lists the constructor arguments, then the receiver,
\* then the method's arguments; with a `this` initializer that initializer is
\* the receiver and no instance is constructed.
C14_ReceiverSynthesised ==
  Walked =>
    LET j == Len(ancestors)
        fn == ancestors[j]
        list == WrittenFor(j)
        decls == adjusted[j].declarators
        ctorOrders == [i \in 1..Len(fn.constructorParams) |->
                         ConstructorOrder(fn, fn.constructorParams[i])]
        ctorDecls == ResolvedDeclarators(list, ctorOrders, fn.constructorParams, 1)
        paramDecls == ResolvedDeclarators(
                        list, [i \in 1..Len(fn.params) |-> ParameterOrder(fn, fn.params[i])],
                        fn.params, 1)
        thisRight == FirstWritten(list, ThisOrder(fn))
    IN (fn.parent = "ClassBody" /\ fn.className = "C" /\ ~fn.static
        /\ fn.kind # "constructor") =>
         IF thisRight = 0
         THEN /\ Len(decls) = Len(ctorDecls) + 1 + Len(paramDecls)
              /\ SubSeq(decls, 1, Len(ctorDecls)) = ctorDecls
              /\ decls[Len(ctorDecls) + 1].init.type = "NewExpression"
              /\ decls[Len(ctorDecls) + 1].init.name = "C"
              /\ \A i \in 1..Len(fn.constructorParams) :
                   FirstWritten(list, ctorOrders[i]) # 0 =>
                     /\ Len(decls[Len(ctorDecls) + 1].init.arguments) >= i
                     /\ decls[Len(ctorDecls) + 1].init.arguments[i]
                          = fn.constructorParams[i]
              /\ SubSeq(decls, Len(ctorDecls) + 2, Len(decls)) = paramDecls
              /\ adjusted[j].invocation.receiver = decls[Len(ctorDecls) + 1].id
         ELSE /\ \E d \in 1..Len(decls) :
                   /\ decls[d].init = initializerExpression(thisRight)
                   /\ adjusted[j].invocation.receiver = decls[d].id
              /\ \A d \in 1..Len(decls) : decls[d].init.type # "NewExpression"

\* C15: the invocation has the form fixed by the kind of the enclosing
\* function, for every initializer list: `callee(args)` for a plain function,
\* `receiver.method(args)` for a method (the receiver being the class for a
\* static method), `receiver.prop` for a getter, `receiver.prop = arg` for a
\* setter, `new C(args)` with no separately constructed instance for a
\* constructor; and it is suffixed with `.next()` exactly when the function is
\* a generator, also when a computed or private key was renamed.
C15_InvocationForm ==
  Walked =>
    LET j == Len(ancestors)
        fn == ancestors[j]
        inv == adjusted[j].invocation
        decls == adjusted[j].declarators
    IN /\ fn.parent \notin {"ClassBody", "ObjectExpression"} =>
            /\ inv.form = "callee(args)"
            /\ \E d \in 1..Len(decls) : decls[d].id = inv.callee
       /\ (fn.parent \in {"ClassBody", "ObjectExpression"} /\ fn.kind = "method") =>
            /\ inv.form = "receiver.key(args)"
            /\ fn.static => (fn.className # Null => inv.receiver = fn.className)
            /\ (fn.keyType = "Identifier" /\ ~fn.computed) => inv.key = fn.key
            /\ (fn.keyType # "Identifier" \/ fn.computed) =>
                 inv.key = adjusted[j].stableMethodName
       /\ (fn.parent \in {"ClassBody", "ObjectExpression"} /\ fn.kind = "get") =>
            inv.form = "receiver.key"
       /\ (fn.parent \in {"ClassBody", "ObjectExpression"} /\ fn.kind = "set") =>
            /\ inv.form = "receiver.key = arg"
            /\ Len(inv.arguments) = 1
       /\ fn.kind = "constructor" =>
            /\ inv.form = "new callee(args)"
            /\ fn.className # Null => inv.callee = fn.className
            /\ \A d \in 1..Len(decls) : decls[d].init.type # "NewExpression"
       /\ inv.next = fn.generator

\* Whether the initializer with this right side is used in what construct j
\* has emitted: in a declarator of the call block or in the conditional throw.
UsedIn(j, right) ==
  \/ \E d \in 1..Len(adjusted[j].declarators) :
       adjusted[j].declarators[d].init = initializerExpression(right)
  \/ adjusted[j].throwable = initializerExpression(right)

\* The slot of an inner construct that an initializer with this dotted name
\* can fill, if any.
InnerSlot(construct, dottedName) ==
  IF construct.type = "CatchClause"
  THEN IF dottedName \in {"catch." \o construct.params[1], construct.params[1]}
       THEN "catch" ELSE Null
  ELSE IF dottedName = construct.params[1] THEN "param:" \o dottedName ELSE Null

\* C20: after a goal has been driven every initializer the extractor recorded
\* is in exactly one of two states: consumed once, by a lookup for its own
\* dotted name, used in what that construct emits, and by no construct further
\* out than one that was still looking for that name; or named in the one `did
\* not match` error. None is consumed twice and none is lost.
C20_EveryInitializerAccounted ==
  stage = "driven" =>
    \A i \in 1..Len(Recorded) :
      LET r == Recorded[i].right
          d == Recorded[i].dottedName
          takers == {jc \in (1..Len(adjusted)) \X (1..MaxInits) :
                       /\ jc[2] <= Len(adjusted[jc[1]].consumed)
                       /\ adjusted[jc[1]].consumed[jc[2]].right = r}
      IN \/ /\ Cardinality(takers) = 1
            /\ \A jc \in takers :
                 /\ adjusted[jc[1]].consumed[jc[2]].dottedName = d
                 /\ UsedIn(jc[1], r)
                 /\ \A inner \in 1..(jc[1] - 1) :
                      InnerSlot(ancestors[inner], d) # Null =>
                        BoundTo(inner, InnerSlot(ancestors[inner], d)) # {}
            /\ r \notin Rights(unused)
         \/ /\ takers = {}
            /\ \E u \in 1..Len(unused) : unused[u] = Recorded[i]

\* A goal in a catch handler in a function: the handler has consumed an
\* initializer, the function another of the same name, and the walk is over.
C20_Witness ==
  /\ stage = "driven"
  /\ Len(ancestors) = 2
  /\ ancestors[1].type = "CatchClause"
  /\ Len(written) = 2
  /\ written[1].left = <<"a">> /\ written[2].left = <<"a">>
  /\ BoundTo(1, "catch") = {1}
  /\ BoundTo(2, "param:a") = {2}
  /\ unused = << >>

\* ------------------------------------------------------------- the try rule
MaxTry == 2

\* The seeking value of the goal in the handler.
TryGoal == 1

OriginalStatements ==
  {[type |-> "ExpressionStatement", name |-> n, throwable |-> NoExpression]
     : n \in {"s1", "s2"}}

TryBlocks == UNION {[1..n -> OriginalStatements] : n \in 0..MaxTry}

\* The dotted names the initializers of the goal may have.
TryNames == {"catch.a", "a", "z"}

TryInitializers ==
  UNION {{[i \in 1..n |-> [dottedName |-> d[i], right |-> i]] : d \in [1..n -> TryNames]}
           : n \in 0..MaxInits}

\* if (seeking === seekingValue) { throw throwableExpression }
conditionalThrow(throwableExpression) ==
  [type |-> "IfStatement", name |-> "throw", throwable |-> throwableExpression]

\* tryBlock.node.body.push(conditionalThrow), whatever the block holds.
pushAtEnd(body, stmt) == body \o <<stmt>>

\* startOfTry.insertBefore(conditionalThrow), or push into an empty block.
insertAtStart(body, stmt) == IF body # << >> THEN <<stmt>> \o body ELSE <<stmt>>

\* What a throw of the expression hands to the handler.
valueOf(expression) ==
  IF expression.type = "initializer" THEN "value of " \o ToString(expression.right)
  ELSE "new globalThis.Error()"

TryInit ==
  /\ \E body \in TryBlocks, param \in {"a", Null}, inits \in TryInitializers :
       /\ trySource = [block |-> body, param |-> param, initializers |-> inits]
       /\ tryBlock = body
       /\ tryInitializers = inits
  /\ trySeeking \in {0, TryGoal, TryGoal + 1}
  /\ tryTrace = << >>
  /\ binding = Null
  /\ tryPc = "drive"
  /\ tryAt = 0
  /\ TryElseIdle

\* adjust, the try rule, for the goal in the handler.
adjustTryStatement ==
  /\ tryPc = "drive"
  /\ LET r == adjustTry(CatchClause(trySource.param), tryInitializers, NewNameMaker)
     IN /\ tryBlock' = insertAtStart(tryBlock, conditionalThrow(r.throwable))
        /\ tryInitializers' = r.inits
  /\ tryPc' = "block"
  /\ tryAt' = 1
  /\ UNCHANGED <<trySource, trySeeking, tryTrace, binding>>
  /\ TryOnly

\* The emitted try block runs a statement: the conditional throw throws when
\* the goal is sought; a statement of the program completes or throws.
runTryBlock ==
  /\ tryPc = "block"
  /\ tryAt <= Len(tryBlock)
  /\ LET stmt == tryBlock[tryAt]
     IN IF stmt.type = "IfStatement"
        THEN IF trySeeking = TryGoal
             THEN /\ tryTrace' = Append(tryTrace, "throw")
                  /\ binding' = valueOf(stmt.throwable)
                  /\ tryPc' = "handler"
                  /\ UNCHANGED tryAt
             ELSE /\ tryAt' = tryAt + 1
                  /\ UNCHANGED <<tryTrace, binding, tryPc>>
        ELSE \/ /\ tryTrace' = Append(tryTrace, stmt.name)
                /\ tryAt' = tryAt + 1
                /\ UNCHANGED <<binding, tryPc>>
             \/ /\ tryTrace' = Append(tryTrace, stmt.name)
                /\ binding' = "thrown by " \o stmt.name
                /\ tryPc' = "handler"
                /\ UNCHANGED tryAt
  /\ UNCHANGED <<trySource, tryBlock, tryInitializers, trySeeking>>
  /\ TryOnly

\* The try block completes: the handler is skipped.
leaveTryBlock ==
  /\ tryPc = "block"
  /\ tryAt > Len(tryBlock)
  /\ tryPc' = "after"
  /\ UNCHANGED <<trySource, tryBlock, tryInitializers, trySeeking, tryTrace, binding,
                 tryAt>>
  /\ TryOnly

\* The handler runs with its parameter bound; the guard of the goal in it
\* resets the seeking variable when the goal is sought.
runHandler ==
  /\ tryPc = "handler"
  /\ tryTrace' = Append(tryTrace, IF trySeeking = TryGoal THEN "goal" ELSE "handler")
  /\ trySeeking' = IF trySeeking = TryGoal THEN 0 ELSE trySeeking
  /\ tryPc' = "after"
  /\ UNCHANGED <<trySource, tryBlock, tryInitializers, binding, tryAt>>
  /\ TryOnly

TryNext == adjustTryStatement \/ runTryBlock \/ leaveTryBlock \/ runHandler

TrySpec == TryInit /\ [][TryNext]_vars

\* The expression the claim has thrown: the first `catch.<name>` initializer,
\* else the first `<name>` initializer, else a new generic error.
ExpectedThrowable ==
  LET inits == trySource.initializers
      p == trySource.param
      qualified == IF p = Null THEN {} ELSE NamedRights(inits, "catch." \o p)
      plain == IF p = Null THEN {} ELSE NamedRights(inits, p)
  IN IF qualified # {} THEN initializerExpression(Min(qualified))
     ELSE IF plain # {} THEN initializerExpression(Min(plain))
     ELSE newExpression("globalThis.Error", << >>)

MaxCases == 3

MaxSwitchGoals == 2

SwitchHints == {"caseToken", "caseExpr"}

\* The guarded block that stands for goal n after extraction.
GoalStatement(n) == "goal " \o ToString(n)

\* A case: its test (the value it evaluates to, or "default"), its
\* statements, and the place it had in the source (0 for an inserted case).
switchCase(id, test, consequent) == [id |-> id, test |-> test, consequent |-> consequent]

CaseTests ==
  {t \in UNION {[1..n -> {"x", "y", "default"}] : n \in 1..MaxCases} :
     Cardinality({i \in DOMAIN t : t[i] = "default"}) <= 1}

GoalPlaces(n) == UNION {[1..g -> 1..n] : g \in 1..MaxSwitchGoals}

RECURSIVE goalsIn(_, _, _)
goalsIn(places, i, n) ==
  IF n > Len(places) THEN << >>
  ELSE (IF places[n] = i THEN <<GoalStatement(n)>> ELSE << >>) \o goalsIn(places, i, n + 1)

\* The cases as written: case i runs its statement, then its goals, then
\* breaks or falls through.
CasesOf(tests, breaks, places) ==
  [i \in 1..Len(tests) |->
     switchCase(i, tests[i],
                <<"s" \o ToString(i)>> \o goalsIn(places, i, 1)
                \o (IF breaks[i] THEN <<"break">> ELSE << >>))]

\* Expressions of the discriminant and of the declarators before the switch.
originalDiscriminant ==
  [type |-> "original", name |-> Null, seekingValue |-> 0, consequent |-> Null,
   alternate |-> Null]

objectExpression == [originalDiscriminant EXCEPT !.type = "ObjectExpression"]

conditionalExpression(seekingValue, consequent, alternate) ==
  [type |-> "ConditionalExpression", name |-> Null, seekingValue |-> seekingValue,
   consequent |-> consequent, alternate |-> alternate]

positionOf(cases, id) == CHOOSE i \in 1..Len(cases) : cases[i].id = id

\* goal.insertAfter(newCase), the new case put before the goal's case.
insertBeforeCase(cases, i, newCase) ==
  SubSeq(cases, 1, i - 1) \o <<newCase, [cases[i] EXCEPT !.consequent = << >>]>>
  \o SubSeq(cases, i + 1, Len(cases))

\* goal.node.consequent = [] and goal.insertAfter(newCase).
insertAfterCase(cases, i, newCase) ==
  SubSeq(cases, 1, i - 1) \o <<[cases[i] EXCEPT !.consequent = << >>], newCase>>
  \o SubSeq(cases, i + 1, Len(cases))

SwitchInit ==
  /\ \E tests \in CaseTests :
       \E breaks \in [1..Len(tests) -> BOOLEAN], places \in GoalPlaces(Len(tests)),
          value \in {"x", "y", "w"} :
         /\ switchSource = [cases |-> CasesOf(tests, breaks, places),
                            goals |-> places, value |-> value]
         /\ switchCases = CasesOf(tests, breaks, places)
         /\ switchSeeking \in 0..(Len(places) + 1)
  /\ discriminant = originalDiscriminant
  /\ switchDeclarations = << >>
  /\ switchNames = [namesUsed |-> {}, counters |-> [h \in SwitchHints |-> 0]]
  /\ switchDriven = 0
  /\ switchRun = << >>
  /\ switchPc = "drive"
  /\ SwitchElseIdle

\* adjust, the switch rule, for the next goal of the switch statement.
adjustSwitch ==
  /\ switchPc = "drive"
  /\ switchDriven < Len(switchSource.goals)
  /\ LET seekingValue == switchDriven + 1
         caseToken == unusedNameAndSuffixNum(switchNames, "caseToken")
         caseExpr == unusedNameAndSuffixNum(caseToken.nm, "caseExpr")
         goal == positionOf(switchCases, switchSource.goals[seekingValue])
     IN /\ discriminant' = conditionalExpression(seekingValue, caseToken.name,
                                                 caseExpr.name)
        /\ switchDeclarations' =
             switchDeclarations
             \o <<variableDeclarator(caseToken.name, objectExpression),
                  variableDeclarator(caseExpr.name, discriminant)>>
        /\ switchCases' =
             insertAfterCase(switchCases, goal,
                             switchCase(0, caseToken.name, switchCases[goal].consequent))
        /\ switchNames' = caseExpr.nm
  /\ switchDriven' = switchDriven + 1
  /\ UNCHANGED <<switchSource, switchSeeking, switchRun, switchPc>>
  /\ SwitchOnly

\* The value of an expression given the values of the names declared so far.
lookupName(env, name) ==
  env[CHOOSE i \in 1..Len(env) : env[i].name = name].value

evaluate(expression, env, seekingNow, value) ==
  CASE expression.type = "original" -> value
    [] expression.type = "ConditionalExpression" ->
         IF seekingNow = expression.seekingValue
         THEN lookupName(env, expression.consequent)
         ELSE lookupName(env, expression.alternate)

\* The declarators are evaluated in order; an object expression makes an
\* object that nothing else equals, named here by its variable.
RECURSIVE declare(_, _, _, _, _)
declare(declarators, i, env, seekingNow, value) ==
  IF i > Len(declarators) THEN env
  ELSE declare(declarators, i + 1,
               Append(env, [name |-> declarators[i].id,
                            value |-> IF declarators[i].init.type = "ObjectExpression"
                                      THEN declarators[i].id
                                      ELSE evaluate(declarators[i].init, env,
                                                    seekingNow, value)]),
               seekingNow, value)

\* The case a switch statement selects: the first whose test equals the
\* value, else the default, else none (0).
selectCase(cases, value) ==
  LET matching == {i \in 1..Len(cases) : cases[i].test # "default"
                                         /\ cases[i].test = value}
      defaults == {i \in 1..Len(cases) : cases[i].test = "default"}
  IN IF matching # {} THEN Min(matching)
     ELSE IF defaults # {} THEN Min(defaults)
     ELSE 0

\* The statements run from statement n of case i on, up to a break or the
\* end; the guard of a goal runs its block and resets the seeking variable.
RECURSIVE runCases(_, _, _, _, _)
runCases(cases, i, n, seekingNow, trace) ==
  IF i = 0 \/ i > Len(cases) THEN trace
  ELSE IF n > Len(cases[i].consequent) THEN runCases(cases, i + 1, 1, seekingNow, trace)
  ELSE LET stmt == cases[i].consequent[n]
       IN IF stmt = "break" THEN trace
          ELSE IF stmt \in {GoalStatement(g) : g \in 1..MaxSwitchGoals}
          THEN IF stmt = GoalStatement(seekingNow)
               THEN runCases(cases, i, n + 1, 0, Append(trace, stmt))
               ELSE runCases(cases, i, n + 1, seekingNow, trace)
          ELSE runCases(cases, i, n + 1, seekingNow, Append(trace, stmt))

\* The emitted declarators and switch statement run.
runSwitch ==
  /\ switchPc = "drive"
  /\ switchDriven = Len(switchSource.goals)
  /\ LET env == declare(switchDeclarations, 1, << >>, switchSeeking, switchSource.value)
         selected == selectCase(switchCases,
                                evaluate(discriminant, env, switchSeeking,
                                         switchSource.value))
     IN switchRun' = runCases(switchCases, selected, 1, switchSeeking, << >>)
  /\ switchPc' = "done"
  /\ UNCHANGED <<switchSource, switchCases, discriminant, switchDeclarations,
                 switchNames, switchDriven, switchSeeking>>
  /\ SwitchOnly

SwitchNext == adjustSwitch \/ runSwitch

SwitchSpec == SwitchInit /\ [][SwitchNext]_vars

\* The cases that came from the source, in the order they have now.
SourceCases(cases) == SelectSeq(cases, LAMBDA c : c.id # 0)

\* The statements from position i on up to the next case of the source.
RECURSIVE TakenOver(_, _)
TakenOver(cases, i) ==
  IF i > Len(cases) \/ cases[i].id # 0 THEN << >>
  ELSE cases[i].consequent \o TakenOver(cases, i + 1)

\* C17: for goals in the cases of a switch statement the discriminant is
\* evaluated once, into a declarator before the switch, and the switch tests
\* `G ? sentinel : snapshot`, each goal with a sentinel object of its own; a
\* case labelled with the sentinel stands right after the goal's case (also
\* after `default`) and has taken over its statements, the other cases are
\* as written. When a goal is sought the run starts with the statements of the
\* goal's case, runs them once and goes on as the source does from that case;
\* otherwise it runs what the source runs for the value of the discriminant,
\* also with several goals in one switch statement or in one case.
C17_SwitchSentinel ==
  /\ switchPc \in {"drive", "done"} =>
       /\ Len(switchDeclarations) = 2 * switchDriven
       /\ Cardinality({d \in 1..Len(switchDeclarations) :
                         switchDeclarations[d].init.type = "original"})
            = IF switchDriven > 0 THEN 1 ELSE 0
       /\ switchDriven > 0 =>
            /\ discriminant.type = "ConditionalExpression"
            /\ discriminant.seekingValue = switchDriven
       /\ \A g, h \in 1..switchDriven :
            /\ switchDeclarations[2 * g - 1].init.type = "ObjectExpression"
            /\ g # h => switchDeclarations[2 * g - 1].id # switchDeclarations[2 * h - 1].id
            /\ \E i \in 1..(Len(switchCases) - 1) :
                 /\ switchCases[i].id = switchSource.goals[g]
                 /\ switchCases[i].consequent = << >>
                 /\ switchCases[i + 1].id = 0
                 /\ TakenOver(switchCases, i + 1)
                      = switchSource.cases[switchSource.goals[g]].consequent
            /\ \E i \in 1..Len(switchCases) :
                 switchCases[i].test = switchDeclarations[2 * g - 1].id
       /\ Len(SourceCases(switchCases)) = Len(switchSource.cases)
       /\ \A i \in 1..Len(switchSource.cases) :
            /\ SourceCases(switchCases)[i].id = i
            /\ SourceCases(switchCases)[i].test = switchSource.cases[i].test
            /\ (\A g \in 1..switchDriven : switchSource.goals[g] # i) =>
                 SourceCases(switchCases)[i] = switchSource.cases[i]
  /\ switchPc = "done" =>
       IF switchSeeking \in 1..Len(switchSource.goals)
       THEN /\ switchRun = runCases(switchSource.cases,
                                    switchSource.goals[switchSeeking], 1,
                                    switchSeeking, << >>)
            /\ switchRun[1] = "s" \o ToString(switchSource.goals[switchSeeking])
            /\ Cardinality({n \in 1..Len(switchRun) : switchRun[n] = switchRun[1]}) = 1
            /\ \E n \in 1..Len(switchRun) : switchRun[n] = GoalStatement(switchSeeking)
       ELSE switchRun = runCases(switchSource.cases,
                                 selectCase(switchSource.cases, switchSource.value), 1,
                                 0, << >>)

\* Two goals in the default case, which is not the last and falls through; the
\* second goal is sought and the switch statement has run.
C17_Witness ==
  /\ switchPc = "done"
  /\ Len(switchSource.goals) = 2
  /\ switchSource.goals[1] = switchSource.goals[2]
  /\ switchSource.cases[switchSource.goals[1]].test = "default"
  /\ switchSource.goals[1] < Len(switchSource.cases)
  /\ switchSeeking = 2
  /\ Len(switchRun) > 2

\* ------------------------------------------- the capture variable shorthand
\* desugarDollarDollarVarShorthand, for one `$$` name at a time.  An occurrence
\* is the path of an Identifier: the functions around it (outermost first),
\* the type of its parent, the slot of the parent it fills, whether the parent
\* is computed, and whether the parent is part of an object pattern.

MaxUses == 3

CaptureName == "$$0"

\* The module, a function f, a function g in f, a function h beside f.
Scopes == {<< >>, <<"f">>, <<"f", "g">>, <<"h">>}

FunctionTypes == {"FunctionDeclaration", "ArrowFunctionExpression"}

DeclarationTypes == {"FunctionDeclaration", "ClassDeclaration"}

occurrence(parent, key, computed, inPattern) ==
  [parent |-> parent, key |-> key, computed |-> computed, inPattern |-> inPattern]

\* The places an identifier may stand in.
IdentifierPlaces ==
  { occurrence("CallExpression", "arguments", FALSE, FALSE),
    occurrence("AssignmentExpression", "left", FALSE, FALSE),
    occurrence("SpreadElement", "argument", FALSE, FALSE),
    occurrence("VariableDeclarator", "id", FALSE, FALSE),
    occurrence("VariableDeclarator", "init", FALSE, FALSE),
    occurrence("FunctionDeclaration", "id", FALSE, FALSE),
    occurrence("FunctionDeclaration", "params", FALSE, FALSE),
    occurrence("ArrowFunctionExpression", "params", FALSE, FALSE),
    occurrence("RestElement", "argument", FALSE, FALSE),
    occurrence("ArrayPattern", "elements", FALSE, FALSE),
    occurrence("AssignmentPattern", "left", FALSE, FALSE),
    occurrence("AssignmentPattern", "right", FALSE, FALSE),
    occurrence("ObjectProperty", "key", FALSE, FALSE),
    occurrence("ObjectProperty", "key", TRUE, FALSE),
    occurrence("ObjectProperty", "value", FALSE, FALSE),
    occurrence("ObjectProperty", "value", FALSE, TRUE) }

\* The id and the parameters of a function are inside that function.
Occurrences ==
  {[scope |-> sc, place |-> pl] : sc \in Scopes, pl \in IdentifierPlaces} \
  {[scope |-> << >>, place |-> pl] :
     pl \in {q \in IdentifierPlaces : q.parent \in FunctionTypes \/ q.parent = "RestElement"}}

\* ast-declared.mjs: isDeclared(path).
isDeclared(use) ==
  LET parent == use.place.parent
      key == use.place.key
  IN \/ /\ parent \in {"VariableDeclarator", "RestElement"} \cup DeclarationTypes
        /\ key = "id"
     \/ parent = "ArrayPattern"
     \/ parent = "AssignmentPattern" /\ key = "left"
     \/ parent \in FunctionTypes /\ key = "params"
     \/ key = "key" /\ use.place.computed = FALSE

\* function* functionsDeepestToShallowest(path): the functions around a path,
\* each known by the functions it is in and its own name.
functionsDeepestToShallowest(use) ==
  [d \in 1..Len(use.scope) |-> SubSeq(use.scope, 1, Len(use.scope) - d + 1)]

Range(sequence) == {sequence[i] : i \in 1..Len(sequence)}

\* commonFunctions after uses.forEach: those of the first use, in its order,
\* that are around every other use.
RECURSIVE commonFunctionsOf(_, _, _)
commonFunctionsOf(all, fns, i) ==
  IF i > Len(fns) THEN << >>
  ELSE LET rest == commonFunctionsOf(all, fns, i + 1)
       IN IF \A u \in 2..Len(all) :
               fns[i] \in Range(functionsDeepestToShallowest(all[u]))
          THEN <<fns[i]>> \o rest
          ELSE rest

commonFunctions(all) ==
  commonFunctionsOf(all, functionsDeepestToShallowest(all[1]), 1)

\* types.variableDeclaration('const', [name = ['undefined', void 0]])
captureDeclaration(name) ==
  [type |-> "VariableDeclaration", kind |-> "const",
   declarations |-> <<[id |-> name, init |-> <<"'undefined'", "void 0">>]>>]

\* The statement a body starts with before the pass.
FirstStatement == [type |-> "ExpressionStatement"]

\* What stands in the place of an occurrence after the edit loop.
editedUse(name, use) ==
  IF use.place.parent = "SpreadElement"
  THEN [type |-> "Identifier", name |-> name, wrapped |-> FALSE]
  ELSE [type |-> "MemberExpression", object |-> name, property |-> 1,
        wrapped |-> use.place.parent = "AssignmentExpression"
                    /\ use.place.key = "left"]

untouchedUse(name) == [type |-> "Identifier", name |-> name, wrapped |-> FALSE]

CaptureInit ==
  /\ uses \in UNION {[1..n -> Occurrences] : n \in 1..MaxUses}
  /\ bodies = [sc \in Scopes |-> <<FirstStatement>>]
  /\ edited = [i \in 1..Len(uses) |-> untouchedUse(CaptureName)]
  /\ capturePc = "parsed"
  /\ CaptureElseIdle

\* desugarDollarDollarVarShorthand, the turn of the name_loop for one name and
\* the unshift of the collected declarators.
desugarDollarDollarVarShorthand ==
  /\ capturePc = "parsed"
  /\ capturePc' = "desugared"
  /\ IF \E i \in 1..Len(uses) : isDeclared(uses[i])
     THEN UNCHANGED <<bodies, edited>>
     ELSE LET common == commonFunctions(uses)
          IN /\ bodies' =
                  IF common = << >> THEN bodies
                  ELSE [bodies EXCEPT ![common[1]] =
                          <<captureDeclaration(CaptureName)>> \o @]
             /\ edited' = [i \in 1..Len(uses) |-> editedUse(CaptureName, uses[i])]
  /\ UNCHANGED uses
  /\ CaptureOnly

CaptureNext == desugarDollarDollarVarShorthand

CaptureSpec == CaptureInit /\ [][CaptureNext]_vars

\* A declaring position: the id of a declarator or declaration, a parameter,
\* a rest parameter, the target of a pattern, a key that is not computed.
Declaring(use) ==
  LET parent == use.place.parent
      key == use.place.key
  IN \/ parent \in {"VariableDeclarator"} \cup DeclarationTypes /\ key = "id"
     \/ parent \in FunctionTypes /\ key = "params"
     \/ parent = "RestElement"
     \/ parent = "ArrayPattern"
     \/ parent = "AssignmentPattern" /\ key = "left"
     \/ parent = "ObjectProperty" /\ key = "value" /\ use.place.inPattern
     \/ key = "key" /\ use.place.computed = FALSE

\* The deepest function around every use, or the module: the longest prefix
\* the scopes of the uses share.
RECURSIVE sharedScope(_, _)
sharedScope(all, d) ==
  IF /\ \A i \in 1..Len(all) : Len(all[i].scope) >= d
     /\ \A i \in 1..Len(all) : all[i].scope[d] = all[1].scope[d]
  THEN sharedScope(all, d + 1)
  ELSE SubSeq(all[1].scope, 1, d - 1)

declarationsIn(body) ==
  {i \in 1..Len(body) : body[i].type = "VariableDeclaration"}

\* C18: a `$$` name with no occurrence in a declaring position gets exactly
\* one declaration `const name = ['undefined', void 0]`, the first statement
\* of the deepest function around all its uses, or of the module when no
\* function is around them all; a name with a declaring occurrence gets no
\* declaration and none of its occurrences is rewritten.
C18_DeclaredAtSharedScope ==
  capturePc = "desugared" =>
    IF \E i \in 1..Len(uses) : Declaring(uses[i])
    THEN /\ \A sc \in Scopes : declarationsIn(bodies[sc]) = {}
         /\ \A i \in 1..Len(uses) : edited[i] = untouchedUse(CaptureName)
    ELSE /\ \A sc \in Scopes :
              declarationsIn(bodies[sc]) =
                IF sc = sharedScope(uses, 1) THEN {1} ELSE {}
         /\ bodies[sharedScope(uses, 1)][1] = captureDeclaration(CaptureName)

\* ----------------------------------------------- the slots of a capture variable
\* What the edit loop of desugarDollarDollarVarShorthand makes of reads of and
\* assignments to a capture variable, and what the emitted code does when it
\* runs.  The statements are expression statements of one function body, each
\* in a `try { ... } catch {}` of its own; a call of `console.log(...$$0)`
\* follows them.

MaxSlotStatements == 2

\* An assignment operator is kept as its characters.
AssignmentOperators == {<<"=">>, <<"+", "=">>}

numericLiteral(value) == [type |-> "NumericLiteral", value |-> value]

stringLiteral(value) == [type |-> "StringLiteral", value |-> value]

callExpression(callee) == [type |-> "CallExpression", callee |-> callee]

identifier(name) == [type |-> "Identifier", name |-> name]

memberExpression(object, property) ==
  [type |-> "MemberExpression", object |-> object, property |-> property]

assignmentExpression(operator, left, right) ==
  [type |-> "AssignmentExpression", operator |-> operator, left |-> left,
   right |-> right]

sequenceExpression(expressions) ==
  [type |-> "SequenceExpression", expressions |-> expressions]

\* The right sides without an assignment in them: a literal, a call that
\* returns, a call that throws, a read of the capture variable.
SimpleExpressions ==
  {numericLiteral(1), callExpression("g"), callExpression("t"),
   identifier(CaptureName)}

\* Assignments to the capture variable, the right side of which may be such
\* an assignment again.
InnerAssignments ==
  {assignmentExpression(op, identifier(CaptureName), right) :
     op \in AssignmentOperators, right \in SimpleExpressions}

Assignments ==
  {assignmentExpression(op, identifier(CaptureName), right) :
     op \in AssignmentOperators, right \in SimpleExpressions \cup InnerAssignments}

\* String.prototype.split('') / reverse() / join('')
RECURSIVE joinCharacters(_, _)
joinCharacters(characters, i) ==
  IF i > Len(characters) THEN ""
  ELSE characters[i] \o joinCharacters(characters, i + 1)

reverse(characters) ==
  [i \in 1..Len(characters) |-> characters[Len(characters) - i + 1]]

\* generate(node).code, of a node as written.
RECURSIVE generate(_)
generate(expression) ==
  CASE expression.type = "NumericLiteral" -> ToString(expression.value)
    [] expression.type = "CallExpression" -> expression.callee \o "()"
    [] expression.type = "Identifier" -> expression.name
    [] expression.type = "AssignmentExpression" ->
         generate(expression.left) \o " "
           \o joinCharacters(expression.operator, 1) \o " "
           \o generate(expression.right)

\* `${generate(parent.node.right).code} ${operator.split('').reverse().join('')}`
sourceText(assignment) ==
  generate(assignment.right) \o " "
    \o joinCharacters(reverse(assignment.operator), 1)

\* The edit loop: the uses are edited in the order of the traversal, the left
\* side of an assignment before the uses in its right side, so the text is
\* taken from the right side as written.
RECURSIVE editUses(_)
editUses(expression) ==
  CASE expression.type = "Identifier" ->
         memberExpression(expression.name, 1)
    [] expression.type = "AssignmentExpression" ->
         sequenceExpression(
           <<assignmentExpression(<<"=">>,
                                  memberExpression(expression.left.name, 0),
                                  stringLiteral(sourceText(expression))),
             assignmentExpression(expression.operator,
                                  memberExpression(expression.left.name, 1),
                                  editUses(expression.right))>>)
    [] OTHER -> expression

\* The values of the run.
undefinedValue == [type |-> "undefined"]

number(n) == [type |-> "number", n |-> n]

string(s) == [type |-> "string", s |-> s]

NaN == [type |-> "NaN"]

\* a + b for the values above, none of which is a string when it is added.
plus(a, b) ==
  IF a.type = "number" /\ b.type = "number" THEN number(a.n + b.n) ELSE NaN

\* g() returns 3, t() throws.
Thrower == "t"

Returned == number(3)

\* ['undefined', void 0]
initialArray == [i \in {0, 1} |-> IF i = 0 THEN string("undefined") ELSE undefinedValue]

\* The evaluation of an emitted expression with the array the capture variable
\* is bound to: the value, the array afterwards, whether it threw.
RECURSIVE evalCode(_, _)
evalCode(expression, array) ==
  CASE expression.type = "NumericLiteral" ->
         [value |-> number(expression.value), array |-> array, threw |-> FALSE]
    [] expression.type = "StringLiteral" ->
         [value |-> string(expression.value), array |-> array, threw |-> FALSE]
    [] expression.type = "CallExpression" ->
         [value |-> Returned, array |-> array,
          threw |-> expression.callee = Thrower]
    [] expression.type = "MemberExpression" ->
         [value |-> array[expression.property], array |-> array, threw |-> FALSE]
    [] expression.type = "AssignmentExpression" ->
         LET old == array[expression.left.property]
             r == evalCode(expression.right, array)
             new == IF expression.operator = <<"=">> THEN r.value
                    ELSE plus(old, r.value)
         IN IF r.threw THEN r
            ELSE [value |-> new,
                  array |-> [r.array EXCEPT ![expression.left.property] = new],
                  threw |-> FALSE]
    [] expression.type = "SequenceExpression" ->
         LET first == evalCode(expression.expressions[1], array)
         IN IF first.threw THEN first
            ELSE evalCode(expression.expressions[2], first.array)

SlotsInit ==
  /\ slotSource \in UNION {[1..n -> Assignments] : n \in 1..MaxSlotStatements}
  /\ slotCode = << >>
  /\ captured = << >>
  /\ logged = << >>
  /\ slotAt = 0
  /\ slotPc = "parsed"
  /\ SlotsElseIdle

\* desugarDollarDollarVarShorthand: the edit loop.
editCaptureUses ==
  /\ slotPc = "parsed"
  /\ slotCode' = [i \in 1..Len(slotSource) |-> editUses(slotSource[i])]
  /\ slotPc' = "desugared"
  /\ UNCHANGED <<slotSource, captured, logged, slotAt>>
  /\ SlotsOnly

\* The function is entered: `const $$0 = ['undefined', void 0]` runs.
declareCapture ==
  /\ slotPc = "desugared"
  /\ captured' = initialArray
  /\ slotAt' = 1
  /\ slotPc' = "running"
  /\ UNCHANGED <<slotSource, slotCode, logged>>
  /\ SlotsOnly

\* The next statement runs; what it throws is caught.
runCaptureStatement ==
  /\ slotPc = "running"
  /\ slotAt <= Len(slotCode)
  /\ captured' = evalCode(slotCode[slotAt], captured).array
  /\ slotAt' = slotAt + 1
  /\ UNCHANGED <<slotSource, slotCode, logged, slotPc>>
  /\ SlotsOnly

\* console.log(...$$0)
logSpread ==
  /\ slotPc = "running"
  /\ slotAt > Len(slotCode)
  /\ logged' = <<captured[0], captured[1]>>
  /\ slotPc' = "logged"
  /\ UNCHANGED <<slotSource, slotCode, captured, slotAt>>
  /\ SlotsOnly

SlotsNext ==
  \/ editCaptureUses
  \/ declareCapture
  \/ runCaptureStatement
  \/ logSpread

SlotsSpec == SlotsInit /\ [][SlotsNext]_vars

\* The statements as written, run with the capture variable an ordinary
\* variable: its value, the text of the assignment that completed last,
\* whether the expression threw.
NoAssignment == string("undefined")

RECURSIVE evalSource(_, _)
evalSource(expression, env) ==
  CASE expression.type = "NumericLiteral" ->
         [value |-> number(expression.value), env |-> env, threw |-> FALSE]
    [] expression.type = "CallExpression" ->
         [value |-> Returned, env |-> env, threw |-> expression.callee = Thrower]
    [] expression.type = "Identifier" ->
         [value |-> env.value, env |-> env, threw |-> FALSE]
    [] expression.type = "AssignmentExpression" ->
         LET old == env.value
             r == evalSource(expression.right, env)
             new == IF expression.operator = <<"=">> THEN r.value
                    ELSE plus(old, r.value)
         IN IF r.threw THEN r
            ELSE [value |-> new,
                  env |-> [value |-> new, last |-> string(sourceText(expression))],
                  threw |-> FALSE]

RECURSIVE runSource(_, _)
runSource(statements_, n) ==
  IF n = 0 THEN [value |-> undefinedValue, last |-> NoAssignment]
  ELSE evalSource(statements_[n], runSource(statements_, n - 1)).env

\* Whether the capture variable is left bare anywhere in emitted code.
RECURSIVE bareUse(_)
bareUse(expression) ==
  CASE expression.type = "Identifier" -> TRUE
    [] expression.type = "AssignmentExpression" ->
         bareUse(expression.left) \/ bareUse(expression.right)
    [] expression.type = "SequenceExpression" ->
         \E i \in 1..Len(expression.expressions) : bareUse(expression.expressions[i])
    [] OTHER -> FALSE

\* Whether emitted code is what the claim says of an expression as written: a
\* read is a read of slot 1, an assignment is a store of its text into slot 0
\* and then the assignment to slot 1.
RECURSIVE slotsUsed(_, _)
slotsUsed(expression, code) ==
  CASE expression.type = "Identifier" ->
         code = memberExpression(expression.name, 1)
    [] expression.type = "AssignmentExpression" ->
         /\ code.type = "SequenceExpression"
         /\ Len(code.expressions) = 2
         /\ code.expressions[1] =
              assignmentExpression(<<"=">>, memberExpression(CaptureName, 0),
                                   stringLiteral(sourceText(expression)))
         /\ code.expressions[2].type = "AssignmentExpression"
         /\ code.expressions[2].operator = expression.operator
         /\ code.expressions[2].left = memberExpression(CaptureName, 1)
         /\ slotsUsed(expression.right, code.expressions[2].right)
    [] OTHER -> code = expression

\* C19: every use of a capture variable that is not spread reads or writes
\* slot 1, every assignment `$$x <op> E` first stores the text of E, a space
\* and the operator reversed into slot 0; so whenever a statement has ended,
\* slot 0 holds the text and slot 1 the value of the assignment that completed
\* last, and a spread of the variable gives that text and then that value.
C19_TextAndValueOfLastAssignment ==
  /\ slotPc # "parsed" /\ slotPc # "idle" =>
       \A i \in 1..Len(slotSource) :
         ~bareUse(slotCode[i]) /\ slotsUsed(slotSource[i], slotCode[i])
  /\ slotPc \in {"running", "logged"} =>
       LET ref == runSource(slotSource, slotAt - 1)
       IN /\ captured[0] = ref.last
          /\ captured[1] = ref.value
          /\ slotPc = "logged" => logged = <<ref.last, ref.value>>

\* ------------------------------------------------- the items of a with-list
\* extractComeHereBlocks and the walk for with-lists whose items are not all
\* assignments to dotted paths, for a goal in the body of a function
\* declaration `function f(...) { ... }`.

MaxWith == 3

\* The item at place i of a list: `a = i`, `f.a = i`, `b = i`, `a[x] = i`,
\* `this.a = i`, `a += i`, `a == i`, `g()`, `b`, `_`.
ItemsAt(i) ==
  {assignmentItem(<<"a">>, i), assignmentItem(<<"f", "a">>, i),
   assignmentItem(<<"b">>, i),
   withItem("AssignmentExpression", "=", <<"a", "x">>, TRUE, i, Null),
   assignmentItem(<<"this", "a">>, i),
   withItem("AssignmentExpression", "+=", <<"a">>, FALSE, i, Null),
   withItem("BinaryExpression", "==", <<"a">>, FALSE, i, Null),
   withItem("CallExpression", Null, << >>, FALSE, 0, Null),
   withItem("Identifier", Null, << >>, FALSE, 0, "b"),
   withItem("Identifier", Null, << >>, FALSE, 0, "_")}

WithItemLists(n) ==
  {its \in [1..n -> UNION {ItemsAt(i) : i \in 1..n}] :
     \A i \in 1..n : its[i] \in ItemsAt(i)}

ExtractInit ==
  /\ ancestors \in {<<[Callable EXCEPT !.params = ps]>> : ps \in ParamLists}
  /\ \E n \in 0..MaxWith : written \in WithItemLists(n)
  /\ initializers = << >>
  /\ malformed = << >>
  /\ adjusted = << >>
  /\ unused = << >>
  /\ callNames = [namesUsed |-> {"f", "a", "b", "g", "x"},
                  counters |-> [h \in CallHints |-> 0]]
  /\ stage = "parsed"
  /\ thrown = Null
  /\ CallElseIdle

ExtractSpec == ExtractInit /\ [][CallNext]_vars

\* `_`, which stands for no initializer.
IsPlaceholder(it) == it.type = "Identifier" /\ it.name = "_"

\* An assignment with operator `=` to a chain of non-computed identifiers.
IsInitializer(it) ==
  /\ it.type = "AssignmentExpression"
  /\ it.operator = "="
  /\ it.left # << >>
  /\ ~it.computed
  /\ it.left[1] # "this"

\* The right sides that are in the list of initializers or have left it by
\* being consumed.
RecordedRights ==
  Rights(initializers) \cup Rights(unused)
  \cup UNION {Rights(adjusted[j].consumed) : j \in 1..Len(adjusted)}

\* C21: an item of a with-list that is not an assignment with operator `=`
\* to a chain of non-computed identifiers is reported and skipped: it is not
\* recorded as an initializer and no declarator of a call block is
\* initialised with its right side; `_` is neither reported nor recorded.
C21_MalformedItemsSkipped ==
  stage \in {"extracted", "driven"} =>
    \A i \in 1..Len(written) :
      LET reported == \E m \in 1..Len(malformed) : malformed[m].index = i
          recorded == written[i].right # 0 /\ written[i].right \in RecordedRights
          supplies == \E j \in 1..Len(adjusted) : UsedIn(j, written[i].right)
      IN IF IsPlaceholder(written[i]) THEN ~reported /\ ~recorded
         ELSE ~IsInitializer(written[i]) =>
                reported /\ ~recorded /\ (written[i].right # 0 => ~supplies)

\* ------------------------------------------------ parameters left unsupplied
\* The call synthesised for a function declaration or a method of a class
\* with a constructor, the parameters of which may have default values.

\* The parameter lists with the places of the parameters that have a default.
ParamsWithDefaults ==
  UNION {{[params |-> ps, defaults |-> ds] : ds \in SUBSET (1..Len(ps))}
           : ps \in ParamLists}

ArgumentFunctions ==
  {[Callable EXCEPT !.params = pd.params, !.defaults = pd.defaults]
     : pd \in ParamsWithDefaults}
  \cup {[Callable EXCEPT
           !.type = "ClassMethod", !.id = Null, !.keyType = "Identifier",
           !.key = "f", !.kind = "method", !.params = pd.params,
           !.defaults = pd.defaults, !.parent = "ClassBody",
           !.class = "ClassDeclaration", !.className = "C",
           !.hasConstructor = TRUE, !.constructorParams = cd.params,
           !.constructorDefaults = cd.defaults]
          : pd \in ParamsWithDefaults, cd \in ParamsWithDefaults}

ArgumentInit ==
  /\ ancestors \in {<<fn>> : fn \in ArgumentFunctions}
  /\ \E n \in 0..MaxInits : written \in WithLists(n)
  /\ initializers = << >>
  /\ malformed = << >>
  /\ adjusted = << >>
  /\ unused = << >>
  /\ callNames = [namesUsed |-> {"C", "f", "a", "b", "z"},
                  counters |-> [h \in CallHints |-> 0]]
  /\ stage = "parsed"
  /\ thrown = Null
  /\ CallElseIdle

ArgumentSpec == ArgumentInit /\ [][CallNext]_vars

\* The places of the parameters of a list of construct j that an initializer
\* was found for.
ResolvedPlaces(j, params, slotKind) ==
  {i \in 1..Len(params) : BoundTo(j, slotKind \o ":" \o params[i]) # {}}

Max(S) == IF S = {} THEN 0 ELSE CHOOSE m \in S : \A o \in S : o <= m

\* What the claim says of one argument list of construct j: the arguments
\* passed, and the warnings about it.
ArgumentsAsClaimed(j, params, defaults, slotKind, prefix, passed) ==
  LET resolved == ResolvedPlaces(j, params, slotKind)
      missing == {i \in 1..Len(params) : i \notin resolved /\ i \notin defaults}
      about == SelectSeq(adjusted[j].warnings, LAMBDA w : w.list = slotKind)
  IN /\ Len(passed) = Max(resolved)
     /\ \A i \in 1..Len(passed) :
          passed[i] = IF i \in resolved THEN params[i] ELSE "void 0"
     /\ IF missing = {} THEN about = << >>
        ELSE /\ Len(about) = 1
             /\ {about[1].missing[m] : m \in 1..Len(about[1].missing)}
                  = {[index |-> i - 1, name |-> prefix \o params[i]] : i \in missing}
             /\ Len(about[1].missing) = Cardinality(missing)

\* The arguments of `new C(...)` in the declarators of construct j.
ConstructorArguments(j) ==
  LET news == SelectSeq(adjusted[j].declarators,
                        LAMBDA d : d.init.type = "NewExpression")
  IN news[1].init.arguments

Constructs(j) ==
  \E d \in 1..Len(adjusted[j].declarators) :
    adjusted[j].declarators[d].init.type = "NewExpression"

MaxContextInits == 1

ContextFunctions ==
  {[Callable EXCEPT !.params = <<"a">>, !.defaults = {1}, !.parent = pa,
                    !.goalKey = gk]
     : pa \in {"Program", "BlockStatement"} \cup ExportDeclarations,
       gk \in {"body", "params"}}
  \cup {[Callable EXCEPT !.type = ty, !.id = Null, !.parent = "Expression",
                         !.params = <<"a">>, !.defaults = {1}, !.goalKey = gk]
          : ty \in {"FunctionExpression", "ArrowFunctionExpression"},
            gk \in {"body", "params"}}
  \cup {[Callable EXCEPT !.type = "ClassMethod", !.id = Null,
                         !.keyType = "Identifier", !.key = ke.key,
                         !.computed = ke.computed, !.kind = ke.kind,
                         !.params = <<"a">>, !.defaults = {1},
                         !.parent = "ClassBody", !.class = "ClassDeclaration",
                         !.className = "C", !.hasConstructor = ke.kind = "constructor",
                         !.constructorParams =
                            IF ke.kind = "constructor" THEN <<"a">> ELSE << >>,
                         !.goalKey = ke.goalKey]
          : ke \in {[key |-> "f", computed |-> FALSE, kind |-> "method", goalKey |-> "body"],
                    [key |-> "f", computed |-> FALSE, kind |-> "method", goalKey |-> "params"],
                    [key |-> "f", computed |-> TRUE, kind |-> "method", goalKey |-> "key"],
                    [key |-> "constructor", computed |-> FALSE, kind |-> "constructor",
                     goalKey |-> "body"],
                    [key |-> "constructor", computed |-> FALSE, kind |-> "constructor",
                     goalKey |-> "params"]}}
  \cup {[Callable EXCEPT !.type = "ObjectMethod", !.id = Null,
                         !.keyType = "Identifier", !.key = "f", !.kind = "method",
                         !.params = <<"a">>, !.defaults = {1},
                         !.parent = "ObjectExpression", !.goalKey = gk]
          : gk \in {"body", "params"}}

\* A function with the goal in its body, inside one of the functions above:
\* a declaration in a block, an arrow function.
NestedFunctions ==
  {[Callable EXCEPT !.id = "g", !.parent = "BlockStatement"],
   [Callable EXCEPT !.type = "ArrowFunctionExpression", !.id = Null,
                    !.parent = "Expression"]}

ContextInit ==
  /\ ancestors \in {<<fn>> : fn \in ContextFunctions}
                   \cup {<<in, fn>> : in \in NestedFunctions, fn \in ContextFunctions}
  /\ \E n \in 0..MaxContextInits : written \in WithLists(n)
  /\ initializers = << >>
  /\ malformed = << >>
  /\ adjusted = << >>
  /\ unused = << >>
  /\ callNames = [namesUsed |-> {"C", "f", "g", "a", "b", "z"},
                  counters |-> [h \in CallHints |-> 0]]
  /\ stage = "parsed"
  /\ thrown = Null
  /\ CallElseIdle

ContextSpec == ContextInit /\ [][CallNext]_vars

\* A context outside the rule set: the goal is in the function but not in its
\* body, or the function is a declaration that is neither at the top of the
\* module nor under an export.
Unsupported(fn) ==
  \/ fn.goalKey # "body"
  \/ /\ fn.type = "FunctionDeclaration"
     /\ fn.parent \notin {"Program"} \cup ExportDeclarations

\* C23: the transform throws when a function around the goal is an
\* unsupported context, and only then: with such a function on the chain it
\* never gets to return, and without one it never throws.
C23_ThrowsOnlyWhenUnsupported ==
  /\ stage = "driven" => \A j \in 1..Len(ancestors) : ~Unsupported(ancestors[j])
  /\ stage = "thrown" => \E j \in 1..Len(ancestors) : Unsupported(ancestors[j])

\* ------------------------------------------ the flag in the seek tests (C24)
\* The function whose own body holds the seek test emitted for the construct
\* at position i of chain c: 0 at module top level.
bodyOf(c, i) == enclosingFn(ast[c], i - 1)

\* The transform has ended for every goal of the module.
Transformed == phase \in {"load", "run", "done"}

\* C24: once the module is transformed, every function on a goal's chain has
\* the prologue, and every seek test emitted for the goal (its guard, each
\* rewrite of an enclosing construct, the guard of each call block) carries
\* the flag of the function whose body it is in, and no flag at module top
\* level.
C24_ChecksCarryActiveFlag ==
  Transformed =>
    \A c \in 1..Len(ast) :
      /\ \A i \in 1..Len(ast[c]) :
           /\ ast[c][i].kind \in FnKinds => ast[c][i].bitIndex # NoName
           /\ ast[c][i].op # "none" => (ast[c][i].check.active <=> bodyOf(c, i) > 0)
      /\ goalGuard[c].active <=> bodyOf(c, Len(ast[c]) + 1) > 0

\* ------------------------------------------- the run of call blocks (C25)
\* Functions at module top level, each with one goal in its body; the call
\* block of the g-th stands after it:
\*   if (seeking === g) {
\*     try { const <declarators>; activeFns |= 1n << bit; <invocation> }
\*     finally { seeking = 0 }
\*   }
\* A declarator's initializer and a parameter's default may call one of the
\* functions (0: it calls none).
MaxTargets == 2
MaxDeclarators == 2
MaxFrames == 3

\* The suffix of the g-th isActiveCall name, which is the bit of the function.
bitOf(g) == g - 1

constStatement(callee) == [kind |-> "const", callee |-> callee]
setBitStatement == [kind |-> "setbit", callee |-> 0]
invocationStatement == [kind |-> "invoke", callee |-> 0]

\* A try block that sets the bit before its declarators are evaluated.
tryStatementsBitFirst(declarators) ==
  <<setBitStatement>>
  \o [j \in 1..Len(declarators) |-> constStatement(declarators[j])]
  \o <<invocationStatement>>

\* The statements of the try block of a call block, in order: the
\* declarators, the setting of the bit, the invocation.
tryStatements(declarators) ==
  [j \in 1..Len(declarators) |-> constStatement(declarators[j])]
  \o <<setBitStatement, invocationStatement>>

DeclaratorLists(n) == UNION {[1..m -> 0..n] : m \in 0..MaxDeclarators}

ActivationInit ==
  /\ \E n \in 1..MaxTargets :
       /\ targets \in [1..n -> [declarators : DeclaratorLists(n), default : 0..n]]
       /\ seekingVar0 \in 0..n
  /\ bits = {}
  /\ frames = << >>
  /\ site = [goal |-> 1, try |-> << >>]
  /\ sitePc = "guard"
  /\ ActivationElseIdle

\* A call of function fn: its frame, before the parameters are bound.
called(fn, via) == [fn |-> fn, via |-> via, isActiveCall |-> FALSE, at |-> "defaults"]

nextSite == [goal |-> site.goal + 1, try |-> << >>]

\* The guard of the call block: `seeking === g` at module top level.
callBlockGuard ==
  /\ sitePc = "guard" /\ frames = << >>
  /\ site.goal <= Len(targets)
  /\ IF seekingVar0 = site.goal
     THEN /\ site' = [site EXCEPT !.try = tryStatements(targets[site.goal].declarators)]
          /\ sitePc' = "try"
     ELSE /\ site' = nextSite
          /\ sitePc' = "guard"
  /\ UNCHANGED <<targets, bits, seekingVar0, frames>>
  /\ ActivationOnly

\* One statement of the try block; an initializer may throw.
tryStatement ==
  /\ sitePc = "try" /\ frames = << >>
  /\ IF site.try = << >>
     THEN /\ sitePc' = "finally"
          /\ UNCHANGED <<site, bits, frames>>
     ELSE LET current == site.try[1]
              rest == [j \in 1..(Len(site.try) - 1) |-> site.try[j + 1]]
          IN CASE current.kind = "const" ->
                    \E throws \in BOOLEAN :
                      /\ site' = [site EXCEPT !.try = IF throws THEN << >> ELSE rest]
                      /\ frames' = IF throws \/ current.callee = 0 THEN frames
                                   ELSE <<called(current.callee, "declarator")>>
                      /\ UNCHANGED <<bits, sitePc>>
               [] current.kind = "setbit" ->
                    /\ bits' = bits \cup {bitOf(site.goal)}
                    /\ site' = [site EXCEPT !.try = rest]
                    /\ UNCHANGED <<frames, sitePc>>
               [] OTHER ->
                    /\ frames' = <<called(site.goal, "callblock")>>
                    /\ site' = [site EXCEPT !.try = rest]
                    /\ UNCHANGED <<bits, sitePc>>
  /\ UNCHANGED <<targets, seekingVar0>>
  /\ ActivationOnly

\* finally { seeking = 0 }, then the module goes on.
finallyOfCallBlock ==
  /\ sitePc = "finally" /\ frames = << >>
  /\ seekingVar0' = 0
  /\ site' = nextSite
  /\ sitePc' = "guard"
  /\ UNCHANGED <<targets, bits, frames>>
  /\ ActivationOnly

\* After the last call block the module may call a function as written.
moduleCall ==
  /\ sitePc = "guard" /\ frames = << >>
  /\ site.goal > Len(targets)
  /\ \/ \E fn \in 1..Len(targets) : frames' = <<called(fn, "module")>> /\ sitePc' = "last"
     \/ frames' = frames /\ sitePc' = "done"
  /\ UNCHANGED <<targets, bits, seekingVar0, site>>
  /\ ActivationOnly

topFrame == frames[Len(frames)]

\* The parameters are bound before the first statement of the body: a
\* default may call a function.
parameterDefaults ==
  /\ frames # << >> /\ topFrame.at = "defaults"
  /\ LET callee == targets[topFrame.fn].default
         bound == [frames EXCEPT ![Len(frames)].at = "prologue"]
     IN frames' = IF callee = 0 \/ Len(frames) >= MaxFrames THEN bound
                  ELSE Append(bound, called(callee, "default"))
  /\ UNCHANGED <<targets, bits, seekingVar0, site, sitePc>>
  /\ ActivationOnly

\* The first two statements of the body:
\*   const isActiveCall = activeFns >> bit & 1n; activeFns &= ~(1n << bit)
activePrologue ==
  /\ frames # << >> /\ topFrame.at = "prologue"
  /\ LET p == prologue(bits, bitOf(topFrame.fn))
     IN /\ frames' = [frames EXCEPT ![Len(frames)].isActiveCall = p.isActiveCall,
                                    ![Len(frames)].at = "body"]
        /\ bits' = p.mask
  /\ UNCHANGED <<targets, seekingVar0, site, sitePc>>
  /\ ActivationOnly

\* The statements before the goal may call a function.
bodyBeforeGoal ==
  /\ frames # << >> /\ topFrame.at = "body"
  /\ LET went == [frames EXCEPT ![Len(frames)].at = "goal"]
     IN \/ frames' = went
        \/ /\ Len(frames) < MaxFrames
           /\ \E fn \in 1..Len(targets) : frames' = Append(went, called(fn, "body"))
  /\ UNCHANGED <<targets, bits, seekingVar0, site, sitePc>>
  /\ ActivationOnly

\* if (isActiveCall && seeking === g) { seeking = 0; ... }, then the function
\* returns.
goalOfTarget ==
  /\ frames # << >> /\ topFrame.at = "goal"
  /\ seekingVar0' = IF topFrame.isActiveCall /\ seekingVar0 = topFrame.fn THEN 0
                   ELSE seekingVar0
  /\ frames' = SubSeq(frames, 1, Len(frames) - 1)
  /\ sitePc' = IF Len(frames) = 1 /\ sitePc = "last" THEN "done" ELSE sitePc
  /\ UNCHANGED <<targets, bits, site>>
  /\ ActivationOnly

ActivationNext ==
  \/ callBlockGuard
  \/ tryStatement
  \/ finallyOfCallBlock
  \/ moduleCall
  \/ parameterDefaults
  \/ activePrologue
  \/ bodyBeforeGoal
  \/ goalOfTarget

ActivationSpec == ActivationInit /\ [][ActivationNext]_vars

\* The frame has run its prologue.
Started(frame) == frame.at \in {"body", "goal"}

\* A declarator of the try block is being evaluated, or is still to be.
EvaluatingDeclarators ==
  /\ sitePc = "try"
  /\ \/ \E j \in 1..Len(site.try) : site.try[j].kind = "const"
     \/ frames # << >> /\ frames[1].via = "declarator"

\* C25: in a call block the bit of the target is not set while a declarator
\* is evaluated and is set when the invocation is next; a call made while a
\* declarator is evaluated never gets an active flag; at most one bit of the
\* mask is set at any time; and the mask is empty once the function the call
\* block invoked has run its prologue.
C25_BitSetJustBeforeInvocation ==
  /\ EvaluatingDeclarators => bits = {}
  /\ (sitePc = "try" /\ frames = << >> /\ site.try = <<invocationStatement>>)
       => bits = {bitOf(site.goal)}
  /\ (frames # << >> /\ frames[1].via = "declarator")
       => \A j \in 1..Len(frames) : ~frames[j].isActiveCall
  /\ Cardinality(bits) <= 1
  /\ \A j \in 1..Len(frames) :
       (frames[j].via = "callblock" /\ Started(frames[j])) => bits = {}

\* A declarator of the call block of a function calls that very function,
\* which runs its body, and later the call block's own invocation does.
C25_Witness ==
  /\ sitePc = "try" /\ frames # << >>
  /\ frames[1].fn = site.goal /\ Started(frames[1])
  /\ frames[1].via = "declarator"

\* ------------------------------------------- the iterator wrappers (C26)
\* A loop `for (el of right)` or `for (el in right)` with the goal in its body.
\* The value of the right side is given by what iterating it gives: the
\* elements of an iterable, the enumerable keys of an object.
MaxElements == 3
ElementValues == {"a", "", "{}"}

\* The value of a seek test: a boolean, or the 0n of an inactive frame's flag
\* (`isActiveCall && seeking === id` is the flag itself when the flag is 0n).
FlagValues == {"true", "false", "0n"}

\* ToBoolean of a value, given as its source text ("" is the empty string).
Falsy == {"false", "0n", "0", "", "null", "undefined"}
truthy(value) == value \notin Falsy

\* The object a `{}` in the wrapper makes: it is no element of any iterable.
freshObject == "a new {}"

LoopsWritten ==
  [type : {"ForOfStatement", "ForInStatement"},
   right : UNION {[1..n -> ElementValues] : n \in 0..MaxElements},
   flag : FlagValues]

WrapperInit ==
  /\ loopWritten \in LoopsWritten
  /\ loopEmitted = << >>
  /\ generator = << >>
  /\ yielded = << >>
  /\ wrapperPc = "written"
  /\ WrapperElseIdle

\* adjust, the rule of for-of and for-in: the right side becomes a call of the
\* wrapper with the seek test, and a for-in loop becomes a for-of loop.
adjustIteratorLoop ==
  /\ wrapperPc = "written"
  /\ LET isForIn == loopWritten.type = "ForInStatement"
         wrapperName == IF isForIn THEN "maybeNotEmptyKeyIterator"
                        ELSE "maybeNotEmptyIterator"
     IN loopEmitted' = [type |-> "ForOfStatement",
                        right |-> [callee |-> wrapperName,
                                   arguments |-> <<loopWritten.right, loopWritten.flag>>]]
  /\ wrapperPc' = "emitted"
  /\ UNCHANGED <<loopWritten, generator, yielded>>
  /\ WrapperOnly

\* The loop starts: the call of a generator function binds the parameters and
\* returns the generator, suspended before the first statement of the body.
callOfWrapper ==
  /\ wrapperPc = "emitted"
  /\ generator' = [wrapper |-> loopEmitted.right.callee,
                   items |-> loopEmitted.right.arguments[1],
                   seeking |-> loopEmitted.right.arguments[2],
                   at |-> 0,
                   state |-> "suspendedStart"]
  /\ wrapperPc' = "looping"
  /\ UNCHANGED <<loopWritten, loopEmitted, yielded>>
  /\ WrapperOnly

\* A wrapper that does not assign to its flag after a yield.
afterYieldFlagKept(seekingLocal) == seekingLocal

\* `seeking = false`, the statement after the yield in the wrapper's loop.
afterYield(seekingLocal) == "false"

\* What the wrapper yields when the iterated value gave nothing: `{}` for
\* elements, `''` for keys.
placeholderOf(wrapper) ==
  IF wrapper = "maybeNotEmptyKeyIterator" THEN "" ELSE freshObject

\* The body of either wrapper from where it is suspended to its next yield or
\* its end:
\*   for (let e of items) { yield e; seeking = false; }
\*   if (seeking) { yield <placeholder>; }
resume(g) ==
  LET seekingLocal == IF g.state = "suspendedYield" /\ g.at <= Len(g.items)
                      THEN afterYield(g.seeking) ELSE g.seeking
      resumed == [g EXCEPT !.seeking = seekingLocal]
  IN IF g.state = "completed" THEN [g |-> g, done |-> TRUE, value |-> Null]
     ELSE IF g.at < Len(g.items)
     THEN [g |-> [resumed EXCEPT !.at = g.at + 1, !.state = "suspendedYield"],
           done |-> FALSE, value |-> g.items[g.at + 1]]
     ELSE IF g.at = Len(g.items) /\ truthy(seekingLocal)
     THEN [g |-> [resumed EXCEPT !.at = g.at + 1, !.state = "suspendedYield"],
           done |-> FALSE, value |-> placeholderOf(g.wrapper)]
     ELSE [g |-> [resumed EXCEPT !.state = "completed"], done |-> TRUE, value |-> Null]

\* The for-of loop asks the generator for the next value and, if there is
\* one, runs its body with it.
generatorNext ==
  /\ wrapperPc = "looping"
  /\ LET r == resume(generator)
     IN /\ generator' = r.g
        /\ yielded' = IF r.done THEN yielded ELSE Append(yielded, r.value)
        /\ wrapperPc' = IF r.done THEN "finished" ELSE "looping"
  /\ UNCHANGED <<loopWritten, loopEmitted>>
  /\ WrapperOnly

\* The body of the loop leaves it (break, return, throw): the generator is
\* closed where it is suspended.
generatorReturn ==
  /\ wrapperPc = "looping" /\ yielded # << >>
  /\ generator' = [generator EXCEPT !.state = "completed"]
  /\ wrapperPc' = "left"
  /\ UNCHANGED <<loopWritten, loopEmitted, yielded>>
  /\ WrapperOnly

WrapperNext ==
  \/ adjustIteratorLoop
  \/ callOfWrapper
  \/ generatorNext
  \/ generatorReturn

WrapperSpec == WrapperInit /\ [][WrapperNext]_vars

\* What the claim has a wrapper yield for the written loop.
YieldedAsClaimed ==
  IF loopWritten.right # << >> THEN loopWritten.right
  ELSE IF truthy(loopWritten.flag)
  THEN <<IF loopWritten.type = "ForInStatement" THEN "" ELSE freshObject>>
  ELSE << >>

OperandValues == {"0", "", "1", "a", "null"}

LogicalsWritten ==
  [operator : {"||", "&&"}, left : OperandValues, right : OperandValues,
   flag : FlagValues]

LogicalInit ==
  /\ logicalWritten \in LogicalsWritten
  /\ logicalEmitted = << >>
  /\ evaluations = << >>
  /\ helperFrame = << >>
  /\ logicalPc = "written"
  /\ LogicalElseIdle

\* adjust, the rule of a logical expression with the goal in its right
\* operand: a call of the helper with the left operand, the right operand in
\* an arrow function, and the seek test.
adjustLogical ==
  /\ logicalPc = "written"
  /\ logicalEmitted' =
       [callee |-> IF logicalWritten.operator = "||" THEN "or" ELSE "and",
        arguments |-> <<[operand |-> "left"],
                        [arrow |-> [operand |-> "right"]],
                        [check |-> logicalWritten.flag]>>]
  /\ logicalPc' = "emitted"
  /\ UNCHANGED <<logicalWritten, evaluations, helperFrame>>
  /\ LogicalOnly

\* The call of the helper evaluates its arguments in order: the left
\* operand, the arrow function (which evaluates nothing), the seek test.
callOfHelper ==
  /\ logicalPc = "emitted"
  /\ evaluations' = Append(evaluations, "x")
  /\ helperFrame' = [operator |-> IF logicalEmitted.callee = "or" THEN "||" ELSE "&&",
                     x |-> logicalWritten.left,
                     y |-> logicalEmitted.arguments[2].arrow,
                     seeking |-> logicalEmitted.arguments[3].check,
                     yr |-> Null,
                     returned |-> Null]
  /\ logicalPc' = "if"
  /\ UNCHANGED <<logicalWritten, logicalEmitted>>
  /\ LogicalOnly

\* `if (seeking) { const yr = y(); ... } else { ... }`: the branch taken and,
\* with the flag, the call of the thunk.
helperBranch ==
  /\ logicalPc = "if"
  /\ IF truthy(helperFrame.seeking)
     THEN /\ evaluations' = Append(evaluations, "y")
          /\ helperFrame' = [helperFrame EXCEPT !.yr = logicalWritten[helperFrame.y.operand]]
          /\ logicalPc' = "return x op yr"
     ELSE /\ logicalPc' = "return x op y()"
          /\ UNCHANGED <<evaluations, helperFrame>>
  /\ UNCHANGED <<logicalWritten, logicalEmitted>>
  /\ LogicalOnly

\* A logical expression that gives the boolean of its result.
logicalAsBoolean(operator, left) ==
  [rightNeeded |-> IF operator = "||" THEN ~truthy(left) ELSE truthy(left),
   value |-> IF truthy(left) THEN "true" ELSE "false"]

\* `left || right`, `left && right`: whether the right operand is evaluated,
\* and the value when it is not.
logicalExpression(operator, left) ==
  [rightNeeded |-> IF operator = "||" THEN ~truthy(left) ELSE truthy(left),
   value |-> left]

\* `return x || yr` / `return x && yr` in the branch of the flag,
\* `return x || y()` / `return x && y()` in the other.
helperReturn ==
  /\ logicalPc \in {"return x op yr", "return x op y()"}
  /\ LET e == logicalExpression(helperFrame.operator, helperFrame.x)
         callsThunk == logicalPc = "return x op y()" /\ e.rightNeeded
         right == IF callsThunk THEN logicalWritten[helperFrame.y.operand] ELSE helperFrame.yr
     IN /\ evaluations' = IF callsThunk THEN Append(evaluations, "y") ELSE evaluations
        /\ helperFrame' = [helperFrame EXCEPT
                             !.returned = IF e.rightNeeded THEN right ELSE e.value]
  /\ logicalPc' = "returned"
  /\ UNCHANGED <<logicalWritten, logicalEmitted>>
  /\ LogicalOnly

LogicalNext ==
  \/ adjustLogical
  \/ callOfHelper
  \/ helperBranch
  \/ helperReturn

LogicalSpec == LogicalInit /\ [][LogicalNext]_vars

\* The written expression, evaluated as written: its value and whether its
\* right operand is evaluated.
asWritten ==
  LET left == logicalWritten.left
      rightNeeded == IF logicalWritten.operator = "||" THEN ~truthy(left) ELSE truthy(left)
  IN [value |-> IF rightNeeded THEN logicalWritten.right ELSE left,
      rightEvaluated |-> rightNeeded]

\* C27: the call of the helper returns the value of the written expression;
\* x is evaluated once and first; with a truthy flag y is evaluated exactly
\* once, with a falsy flag exactly when the written expression evaluates its
\* right operand.
C27_HelpersKeepValue ==
  logicalPc = "returned" =>
    /\ helperFrame.returned = asWritten.value
    /\ evaluations[1] = "x"
    /\ \A j \in 2..Len(evaluations) : evaluations[j] = "y"
    /\ Len(evaluations) =
         (IF truthy(logicalWritten.flag) \/ asWritten.rightEvaluated THEN 2 ELSE 1)

\* The helper has returned with a truthy flag where x alone decides.
C27_Witness ==
  /\ logicalPc = "returned"
  /\ truthy(logicalWritten.flag)
  /\ ~asWritten.rightEvaluated
  /\ evaluations = <<"x", "y">>

\* ------------------------------------------- goals side by side (C28)
\* The test of a conditional at module top level with the first goal in its
\* then-arm and the second in its else-arm, after both goals were driven:
\* each adjust wraps the test the one before has left,
\*   (test || seeking === 1) && seeking !== 2.
testOfBothArms(thenKind, elseKind, test, seekingVar) ==
  LET first == adjust(<<parsed(thenKind)>>, 1, 1, NoSlots, NewNameMaker).astc[1]
      second == adjust(<<parsed(elseKind)>>, 1, 2, NoSlots, NewNameMaker).astc[1]
  IN emittedTest(second, emittedTest(first, test, FALSE, seekingVar), FALSE, seekingVar)

BothArms ==
  \A arms \in {<<"IfThen", "IfElse">>, <<"CondThen", "CondElse">>} :
    \A test \in BOOLEAN :
      testOfBothArms(arms[1], arms[2], test, seeking) =
        (CASE seeking = 1 -> TRUE
           [] seeking = 2 -> FALSE
           [] OTHER -> test)

\* C28: while the seeking variable is not the id of a goal, every rewrite made
\* for that goal decides as the original construct, its guard is not entered
\* and its call block does not run; and a conditional with a goal in each arm
\* takes the then-arm for 1, the else-arm for 2, and follows its test
\* otherwise.
C28_GoalsDoNotInterfere ==
  /\ [][(obs' # obs /\ seeking # cur.c) => obs'.emitted = obs'.original]_vars
  /\ [][calls' > calls => seeking = cur.c]_vars
  /\ [][\A c \in 1..Len(ran) : ran'[c] > ran[c] => seeking = c]_vars
  /\ [](Running => BothArms)

\* With the second goal sought, the rewritten if statement around the first
\* goal has been passed without its goal running, and the call block of the
\* second goal has run and reached its goal.
C28_Witness ==
  /\ phase \in {"run", "done"} /\ Len(module) = 2 /\ seek0 = 2
  /\ module = <<<<"IfThen">>, <<"FnDecl">>>>
  /\ ast[1][1].op = "||"
  /\ obs.kind = "FnDecl" /\ calls = 1 /\ ran = <<0, 1>>

\* ------------------------------------------- the stable accessor (C29)
\* A method, getter or setter with a computed or private key that holds the
\* goal, in a class or an object expression.  The names the name maker may
\* make for it occur on the class or object as the key of another method or
\* class property, as the key of a plain property of the object, as the
\* property of a member expression that is assigned to (`this.n = v`,
\* `C.n = v`, `o.n = v`), as a string key, or not at all.
AccessorNames == {"accessor_0", "accessor_1"}
Containers == {"ClassDeclaration", "named ClassExpression", "anonymous ClassExpression",
               "ObjectExpression"}
MemberPlaces == {"absent", "method key", "ObjectProperty key", "member property",
                 "string key"}

MembersWritten ==
  {m \in [container : Containers, kind : {"method", "get", "set"},
          static : BOOLEAN, async : BOOLEAN, key : {"computed", "private"},
          occurrences : [AccessorNames -> MemberPlaces]] :
     /\ m.container = "ObjectExpression" => (~m.static /\ m.key = "computed")
     /\ m.container # "ObjectExpression" =>
          \A n \in AccessorNames : m.occurrences[n] # "ObjectProperty key"
     /\ m.kind # "method" => ~m.async}

\* The Identifier nodes among the occurrences: a string key is none.
identifiersOf(occurrences) ==
  [n \in DOMAIN occurrences |->
     IF occurrences[n] = "string key" THEN "absent" ELSE occurrences[n]]

StableInit ==
  /\ memberWritten \in MembersWritten
  /\ membersEmitted = << >>
  /\ stableMaker = [namesUsed |-> namesUsedIn(identifiersOf(memberWritten.occurrences))
                                    \cup {"C", "args", "newValue"},
                    counters |-> [h \in CallHints |-> 0]]
  /\ delegated = Null
  /\ stablePc = "written"
  /\ StableElseIdle

\* The parameters and the returned expression of the delegator, by kind.
delegatingExpression(kind, object, stableMethodName) ==
  CASE kind = "method" ->
         [params |-> <<"...args">>,
          returns |-> [type |-> "CallExpression", object |-> object,
                       property |-> stableMethodName, arguments |-> <<"...args">>]]
    [] kind = "get" ->
         [params |-> << >>,
          returns |-> [type |-> "MemberExpression", object |-> object,
                       property |-> stableMethodName, arguments |-> << >>]]
    [] OTHER ->
         [params |-> <<"newValue">>,
          returns |-> [type |-> "AssignmentExpression", object |-> object,
                       property |-> stableMethodName, arguments |-> <<"newValue">>]]

\* adjust, for a member whose key is no plain identifier: the body goes to a
\* member with a name of the name maker, put before the member, which keeps
\* its key and returns the use of the new one.
stableAccessor ==
  /\ stablePc = "written"
  /\ LET m == memberWritten
         isObjectMethod == m.container = "ObjectExpression"
         containingClassName == IF m.container \in {"ClassDeclaration",
                                                    "named ClassExpression"}
                                THEN "C" ELSE Null
         class == IF isObjectMethod THEN [name |-> Null, nm |-> stableMaker]
                  ELSE IF containingClassName # Null
                  THEN [name |-> containingClassName, nm |-> stableMaker]
                  ELSE unusedNameAndSuffixNum(stableMaker, "class")
         made0 == unusedNameAndSuffixNum(class.nm, "accessor")
         object == IF m.static THEN class.name ELSE "this"
         d == delegatingExpression(m.kind, object, made0.name)
     IN /\ membersEmitted' =
             <<[key |-> made0.name, computed |-> FALSE, kind |-> m.kind,
                static |-> m.static, async |-> m.async, params |-> "as written",
                body |-> "as written"],
               [key |-> m.key, computed |-> m.key = "computed", kind |-> m.kind,
                static |-> m.static, async |-> FALSE, params |-> d.params,
                body |-> d.returns]>>
        /\ stableMaker' = made0.nm
  /\ stablePc' = "adjusted"
  /\ UNCHANGED <<memberWritten, delegated>>
  /\ StableOnly

\* The names the class or object has, or gets assigned.
NamesPresent == {n \in AccessorNames : memberWritten.occurrences[n] # "absent"}

\* The program uses the member through its original key: the delegator
\* evaluates its object, then the stable key is looked up on it.  The made
\* name of an anonymous class is bound in the arrow function around the call
\* block only; a name the class or object has as well reaches one of the two
\* members, whichever has overridden or shadows the other.
useOriginalKey ==
  /\ stablePc = "adjusted"
  /\ LET moved == membersEmitted[1]
         delegator == membersEmitted[2]
         unbound == delegator.body.object \notin {"this", "C"}
         taken == moved.key \in NamesPresent
     IN \E reached \in {"body as written", "member of the program"} :
          /\ reached = "member of the program" => taken
          /\ delegated' = IF unbound THEN "ReferenceError" ELSE reached
  /\ stablePc' = "used"
  /\ UNCHANGED <<memberWritten, membersEmitted, stableMaker>>
  /\ StableOnly

StableNext ==
  \/ stableAccessor
  \/ useOriginalKey

StableSpec == StableInit /\ [][StableNext]_vars

\* C29: the body stands in a member before the original one under a key that
\* is no name the class or object has or gets assigned, with the kind,
\* staticness and parameters as written; the original member keeps its key
\* and returns the call with all arguments, the read or the write of the
\* stable key on `this`, or on the class for a static member; and a use of
\* the original key reaches the body as written.
C29_StableKeyFresh ==
  /\ stablePc \in {"adjusted", "used"} =>
       LET moved == membersEmitted[1]
           delegator == membersEmitted[2]
       IN /\ moved.key \notin NamesPresent
          /\ moved.kind = memberWritten.kind /\ moved.static = memberWritten.static
          /\ moved.body = "as written" /\ moved.params = "as written"
          /\ delegator.key = memberWritten.key
          /\ delegator.body.property = moved.key
          /\ delegator.body.type =
               (CASE memberWritten.kind = "method" -> "CallExpression"
                  [] memberWritten.kind = "get" -> "MemberExpression"
                  [] OTHER -> "AssignmentExpression")
          /\ memberWritten.kind = "method" => delegator.body.arguments = delegator.params
          /\ (delegator.body.object = "this") <=> ~memberWritten.static
  /\ stablePc = "used" => delegated = "body as written"

\* ----------------------------------- what the capture pass leaves (C30)
\* The return statements of the input that a COMEHERE block follows.
TrailedReturns ==
  {j \in 1..Len(input) : /\ input[j].t = "return"
                         /\ j < Len(input)
                         /\ isComehereBlock(input[j + 1])}

\* The COMEHERE blocks from position j on that follow one another.
RECURSIVE Adjacent(_, _)
Adjacent(stmts, j) ==
  IF j <= Len(stmts) /\ isComehereBlock(stmts[j])
  THEN {j} \cup Adjacent(stmts, j + 1)
  ELSE {}

\* The statements of the input the pass is not about.
Untouched ==
  (1..Len(input)) \ (TrailedReturns \cup UNION {Adjacent(input, j + 1) : j \in TrailedReturns})

\* The capture pass has just ended.
PassOver == phase = "extractBlock" /\ visiting = 1

\* C30: when the capture pass has ended, every statement of the block that is
\* neither a return followed by COMEHERE blocks nor one of those blocks is
\* still in the block, as it was parsed, and these statements are in the
\* order they had.
C30_OtherStatementsKept ==
  PassOver =>
    /\ \A j \in Untouched :
         \E m \in 1..Len(statements) : statements[m] = parsedBlock(input)[j]
    /\ \A i, j \in Untouched :
         i < j => \A m, n \in 1..Len(statements) :
                    (statements[m].id = i /\ statements[n].id = j) => m < n

====
